---------------------------- MODULE Spec2Model ----------------------------
(***************************************************************************)
(* The animation and playback engine of linalg-viz: Animation              *)
(* (animation/animator.py), Timeline (animation/timeline.py) and the       *)
(* playback controller of Scene (scene/scene.py).                          *)
(*                                                                         *)
(* Times (dt, elapsed, duration, start time, playhead) are integers: whole *)
(* multiples of one time unit.  The code only adds, subtracts, compares    *)
(* and clamps times, so every behaviour scales with the unit.  The step    *)
(* quantum of the Scene (_step_size = 0.05) is StepSize units.             *)
(*                                                                         *)
(* Animation objects are the elements of AnimId; the heap maps each object *)
(* to its fields.  Lists of animations hold object references (AnimId), so *)
(* one object may be referenced from several lists, or twice from one.     *)
(***************************************************************************)
EXTENDS Integers, Sequences, FiniteSets, TLC

\* Bounds of the model.
MaxAnim == 2        \* Animation objects that exist
MaxDur == 3         \* largest duration of an Animation
MaxDt == 2          \* largest dt of one update, tick
MaxStart == 2       \* largest start time scheduled on the Timeline
MaxSched == 2       \* entries scheduled on a Timeline used on its own
MaxSceneSched == 1  \* entries scheduled on the Timeline of a Scene
MaxAdmit == 2       \* animations admitted to the Scene
MaxTime == 3        \* the playhead is not advanced beyond this
MaxK == 3           \* longest run of step commands considered
MaxRun == 2         \* longest run of frame ticks considered
MaxVec == 2         \* Vector objects that exist
MaxValue == 2       \* distinct values a Vector can have
MaxDrag == 1        \* longest pointer drag, in pixels
MaxTurn == 1        \* turns of the azimuth and the rotation away from default
MaxScroll == 1      \* fifths of its default the scroll wheel moves the zoom by
MaxCoord == 1       \* largest numerator of a coordinate of the camera position
MaxDen == 5         \* largest denominator of a camera coordinate
MaxRows == 4        \* most rows of a matrix shown step by step
MaxStep == 7        \* largest step counter followed
MaxObj == 4         \* the Vector objects a caller builds
MaxLibAnim == 1     \* the animations a caller requests of them
MantissaBits == 3   \* significant bits of a float
FractionBits == 3   \* a float is a whole number of units of 2^-FractionBits

\* Scene._step_size
StepSize == 1

\* MatrixScene._step_duration = 1.0 second, in frame times of half a second
StepDuration == 2

AnimId == 1..MaxAnim
Durations == 0..MaxDur
Dts == 0..MaxDt
StartTimes == 0..MaxStart
Values == 1..MaxValue

VARIABLES
    heap,       \* AnimId -> the fields of that Animation object
    timeline,   \* the fields of the Scene's Timeline
    scene,      \* the playback fields of the Scene and its object list
    vectors,    \* the Vector objects: their value and pending animation
    ends,       \* VectorAnimation object -> the Vector that is its _end
    camera,     \* the fields of the Scene's Camera2D or Camera3D
    lib         \* the Vector and VectorAnimation objects a caller has built

vars == <<heap, timeline, scene, vectors, ends, camera, lib>>

Max2(a, b) == IF a >= b THEN a ELSE b
Min2(a, b) == IF a <= b THEN a ELSE b

RECURSIVE SeqMax(_)
SeqMax(s) ==
    IF Len(s) = 1 THEN s[1] ELSE Max2(s[1], SeqMax(Tail(s)))

Contains(s, x) == \E i \in 1..Len(s) : s[i] = x

Count(s, x) == Cardinality({i \in 1..Len(s) : s[i] = x})

\* list.remove(x): drops the first occurrence
RemoveFirst(s, x) ==
    LET i == CHOOSE j \in 1..Len(s) :
                 s[j] = x /\ \A k \in 1..(j - 1) : s[k] # x
    IN  SubSeq(s, 1, i - 1) \o SubSeq(s, i + 1, Len(s))

------------------------------------------------------------------------------
\* Animation (animation/animator.py)

NewAnimation(d) == [duration |-> d, elapsed |-> 0, finished |-> FALSE]

\* a variant that finishes only once elapsed exceeds the duration
AnimationUpdateStrict(an, dt) ==
    IF an.finished THEN an
    ELSE IF an.elapsed + dt > an.duration
         THEN [an EXCEPT !.elapsed = an.duration, !.finished = TRUE]
         ELSE [an EXCEPT !.elapsed = an.elapsed + dt]

\* a variant that reaches the end without recording that it has finished
AnimationUpdateUnlatched(an, dt) ==
    IF an.finished THEN an
    ELSE [an EXCEPT !.elapsed = Min2(an.duration, an.elapsed + dt)]

\* a variant that does not clamp the elapsed time at the duration
AnimationUpdateNoClamp(an, dt) ==
    IF an.finished THEN an
    ELSE IF an.elapsed + dt >= an.duration
         THEN [an EXCEPT !.elapsed = an.elapsed + dt, !.finished = TRUE]
         ELSE [an EXCEPT !.elapsed = an.elapsed + dt]

AnimationUpdate(an, dt) ==
    IF an.finished THEN an
    ELSE IF an.elapsed + dt >= an.duration
         THEN [an EXCEPT !.elapsed = an.duration, !.finished = TRUE]
         ELSE [an EXCEPT !.elapsed = an.elapsed + dt]

\* a variant of reset() that rewinds without clearing the finished flag
AnimationResetKeepsFinished(an) == [an EXCEPT !.elapsed = 0]

AnimationReset(an) == [an EXCEPT !.elapsed = 0, !.finished = FALSE]

\* Animation.progress: min(1.0, elapsed / duration) if duration else 1.0, as
\* the fraction num / den in lowest terms of the clamp (den > 0)
AnimationProgress(an) ==
    IF an.duration = 0 THEN [num |-> 1, den |-> 1]
    ELSE IF an.elapsed >= an.duration THEN [num |-> 1, den |-> 1]
    ELSE [num |-> an.elapsed, den |-> an.duration]

\* for anim in s: anim.update(dt)
RECURSIVE UpdateEach(_, _, _)
UpdateEach(H, s, dt) ==
    IF s = <<>> THEN H
    ELSE UpdateEach([H EXCEPT ![Head(s)] = AnimationUpdate(H[Head(s)], dt)],
                    Tail(s), dt)

\* for anim in s: anim.reset()
RECURSIVE ResetEach(_, _)
ResetEach(H, s) ==
    IF s = <<>> THEN H
    ELSE ResetEach([H EXCEPT ![Head(s)] = AnimationReset(H[Head(s)])], Tail(s))

------------------------------------------------------------------------------
\* Timeline (animation/timeline.py)
\* timeline.animations is the dict _animations in insertion order: a sequence
\* of buckets [time, anims], one per distinct start time.

NewTimeline ==
    [animations |-> <<>>, current_time |-> 0,
     is_playing |-> FALSE, is_finished |-> FALSE]

\* the (start time, animation) pairs in the order the dict is iterated
RECURSIVE Entries(_)
Entries(bs) ==
    IF bs = <<>> THEN <<>>
    ELSE [i \in 1..Len(bs[1].anims) |->
             [time |-> bs[1].time, anim |-> bs[1].anims[i]]]
         \o Entries(Tail(bs))

\* get_all_animations
Roster(tl) == [i \in 1..Len(Entries(tl.animations)) |->
                  Entries(tl.animations)[i].anim]

\* a variant that takes the end of the bucket inserted last as the duration
TimelineDurationOfLast(H, tl) ==
    IF tl.animations = <<>> THEN 0
    ELSE LET b == tl.animations[Len(tl.animations)]
         IN  b.time + SeqMax([j \in 1..Len(b.anims) |-> H[b.anims[j]].duration])

TimelineDuration(H, tl) ==
    IF tl.animations = <<>> THEN 0
    ELSE SeqMax([i \in 1..Len(tl.animations) |->
                   tl.animations[i].time
                   + SeqMax([j \in 1..Len(tl.animations[i].anims) |->
                               H[tl.animations[i].anims[j]].duration])])

\* a variant that puts the animation at the front of its bucket
TimelineAddAtFront(tl, time, a) ==
    IF \E i \in 1..Len(tl.animations) : tl.animations[i].time = time
    THEN [tl EXCEPT !.animations =
            [i \in 1..Len(tl.animations) |->
                IF tl.animations[i].time = time
                THEN [tl.animations[i] EXCEPT !.anims = <<a>> \o @]
                ELSE tl.animations[i]]]
    ELSE [tl EXCEPT !.animations = Append(@, [time |-> time, anims |-> <<a>>])]
TimelineAddAt(tl, time, a) ==
    IF \E i \in 1..Len(tl.animations) : tl.animations[i].time = time
    THEN [tl EXCEPT !.animations =
            [i \in 1..Len(tl.animations) |->
                IF tl.animations[i].time = time
                THEN [tl.animations[i] EXCEPT !.anims = Append(@, a)]
                ELSE tl.animations[i]]]
    ELSE [tl EXCEPT !.animations = Append(@, [time |-> time, anims |-> <<a>>])]

\* a variant of play() that also rewinds the playhead
TimelinePlayRewinds(tl) ==
    [tl EXCEPT !.is_playing = TRUE, !.is_finished = FALSE, !.current_time = 0]

\* a variant of play() that leaves the finished flag as it is
TimelinePlayKeepsFinished(tl) == [tl EXCEPT !.is_playing = TRUE]

TimelinePlay(tl) == [tl EXCEPT !.is_playing = TRUE, !.is_finished = FALSE]

TimelinePause(tl) == [tl EXCEPT !.is_playing = FALSE]

\* a variant of stop() that leaves the scheduled animations as they are
TimelineStopKeepsAnimations(H, tl) ==
    [heap |-> H,
     tl |-> [tl EXCEPT !.is_playing = FALSE, !.current_time = 0,
                       !.is_finished = FALSE]]

\* a variant of stop() that leaves the playhead where it is
TimelineStopKeepsPlayhead(H, tl) ==
    [heap |-> ResetEach(H, Roster(tl)),
     tl |-> [tl EXCEPT !.is_playing = FALSE, !.is_finished = FALSE]]

TimelineStop(H, tl) ==
    [heap |-> ResetEach(H, Roster(tl)),
     tl |-> [tl EXCEPT !.is_playing = FALSE, !.current_time = 0,
                       !.is_finished = FALSE]]

\* a variant that starts an animation only after the playhead has passed it
EligibleStrict(now, start) == now > start

\* the test that makes Timeline.update advance an entry's animation
Eligible(now, start) == now >= start

\* the loop of Timeline.update over the entries es, at playhead now
RECURSIVE TimelineLoop(_, _, _, _, _)
TimelineLoop(H, es, now, dt, allf) ==
    IF es = <<>> THEN [heap |-> H, all_finished |-> allf]
    ELSE LET e == Head(es)
             H1 == IF Eligible(now, e.time) /\ ~H[e.anim].finished
                   THEN [H EXCEPT ![e.anim] = AnimationUpdate(H[e.anim], dt)]
                   ELSE H
         IN  TimelineLoop(H1, Tail(es), now, dt, allf /\ H1[e.anim].finished)

\* a variant that finishes as soon as every animation is finished
TimelineUpdateNoDuration(H, tl, dt) ==
    IF ~tl.is_playing \/ tl.is_finished THEN [heap |-> H, tl |-> tl]
    ELSE LET now == tl.current_time + dt
             r == TimelineLoop(H, Entries(tl.animations), now, dt, TRUE)
             tl1 == [tl EXCEPT !.current_time = now]
         IN  IF r.all_finished
             THEN [heap |-> r.heap,
                   tl |-> [tl1 EXCEPT !.is_finished = TRUE, !.is_playing = FALSE]]
             ELSE [heap |-> r.heap, tl |-> tl1]

\* a variant of update that runs on a Timeline that is not playing
TimelineUpdateWhilePaused(H, tl, dt) ==
    IF tl.is_finished THEN [heap |-> H, tl |-> tl]
    ELSE LET now == tl.current_time + dt
             r == TimelineLoop(H, Entries(tl.animations), now, dt, TRUE)
             tl1 == [tl EXCEPT !.current_time = now]
         IN  IF r.all_finished /\ now >= TimelineDuration(r.heap, tl1)
             THEN [heap |-> r.heap,
                   tl |-> [tl1 EXCEPT !.is_finished = TRUE, !.is_playing = FALSE]]
             ELSE [heap |-> r.heap, tl |-> tl1]

\* a variant that finishes without leaving the playing state
TimelineUpdateKeepsPlaying(H, tl, dt) ==
    IF ~tl.is_playing \/ tl.is_finished THEN [heap |-> H, tl |-> tl]
    ELSE LET now == tl.current_time + dt
             r == TimelineLoop(H, Entries(tl.animations), now, dt, TRUE)
             tl1 == [tl EXCEPT !.current_time = now]
         IN  IF r.all_finished /\ now >= TimelineDuration(r.heap, tl1)
             THEN [heap |-> r.heap, tl |-> [tl1 EXCEPT !.is_finished = TRUE]]
             ELSE [heap |-> r.heap, tl |-> tl1]
TimelineUpdate(H, tl, dt) ==
    IF ~tl.is_playing \/ tl.is_finished THEN [heap |-> H, tl |-> tl]
    ELSE LET now == tl.current_time + dt
             r == TimelineLoop(H, Entries(tl.animations), now, dt, TRUE)
             tl1 == [tl EXCEPT !.current_time = now]
         IN  IF r.all_finished /\ now >= TimelineDuration(r.heap, tl1)
             THEN [heap |-> r.heap,
                   tl |-> [tl1 EXCEPT !.is_finished = TRUE, !.is_playing = FALSE]]
             ELSE [heap |-> r.heap, tl |-> tl1]

\* get_active_animations
ActiveAnimations(H, tl) ==
    SelectSeq(Entries(tl.animations),
              LAMBDA e : tl.current_time >= e.time /\ ~H[e.anim].finished)

------------------------------------------------------------------------------
\* Scene (scene/scene.py): the playback controller.
\* A world W is the Scene with the objects it owns: [heap, tl, sc].

NewScene ==
    [objects |-> <<>>, animations |-> <<>>, original_animations |-> <<>>,
     paused |-> FALSE]

\* Vector (core/vector.py): a Vector made by transform, scale, add, ... (it has
\* a previous state), with no pending animation yet
NewVector(val) == [value |-> val, pending |-> 0]

\* Vector.__eq__: np.allclose of the components
VectorEq(x, y) == x.value = y.value

\* `obj in self._objects`: some element is the object itself or equals it
InObjects(V, objs, v) ==
    \E i \in 1..Len(objs) : objs[i] = v \/ VectorEq(V[objs[i]], V[v])

\* Scene.add(obj), with V the Vector objects
SceneAdd(W, V, v) ==
    IF InObjects(V, W.sc.objects, v) THEN W
    ELSE [W EXCEPT !.sc.objects = Append(@, v)]

\* Scene.remove(obj): list.remove drops the first element that is obj or equals it
SceneRemove(W, V, v) ==
    IF ~InObjects(V, W.sc.objects, v) THEN W
    ELSE LET objs == W.sc.objects
             i == CHOOSE j \in 1..Len(objs) :
                      /\ objs[j] = v \/ VectorEq(V[objs[j]], V[v])
                      /\ \A k \in 1..(j - 1) :
                            ~(objs[k] = v \/ VectorEq(V[objs[k]], V[v]))
         IN  [W EXCEPT !.sc.objects =
                 SubSeq(objs, 1, i - 1) \o SubSeq(objs, i + 1, Len(objs))]

SceneAddAnimation(W, a) ==
    [W EXCEPT !.sc.animations = Append(@, a),
              !.sc.original_animations = Append(@, a)]

\* a variant of clear() that empties the original record as well
SceneClearForgets(W) ==
    [W EXCEPT !.sc.objects = <<>>, !.sc.animations = <<>>,
              !.sc.original_animations = <<>>]

SceneClear(W) == [W EXCEPT !.sc.objects = <<>>, !.sc.animations = <<>>]

\* the admission of show() and Vector.show(scene): scene.add(v), then
\* scene._add_animation(v._pending_animation) when v has one
SceneAdmit(W, V, v) ==
    IF V[v].pending # 0
    THEN SceneAddAnimation(SceneAdd(W, V, v), V[v].pending)
    ELSE SceneAdd(W, V, v)

\* the live animations the loop of _render_2d / _render_3d matches with obj:
\* isinstance(anim, VectorAnimation) and anim._end is obj, in list order
Targeting(W, E, v) ==
    SelectSeq(W.sc.animations, LAMBDA a : a \in DOMAIN E /\ E[a] = v)

\* what _render_2d / _render_3d draws for obj: the first match, if there is
\* one and it is not finished (draw_animated_vector), else obj itself
RenderQuery(W, E, v) ==
    IF Targeting(W, E, v) # <<>> /\ ~W.heap[Targeting(W, E, v)[1]].finished
    THEN [animated |-> TRUE, of |-> Targeting(W, E, v)[1]]
    ELSE [animated |-> FALSE, of |-> v]

\* a variant that re-admits the missing animations without resetting them
RECURSIVE RepopulateNoReset(_, _, _)
RepopulateNoReset(H, live, orig) ==
    IF orig = <<>> THEN [heap |-> H, animations |-> live]
    ELSE IF Contains(live, Head(orig))
         THEN RepopulateNoReset(H, live, Tail(orig))
         ELSE RepopulateNoReset(H, Append(live, Head(orig)), Tail(orig))

\* for anim in original: if anim not in live: anim.reset(); live.append(anim)
RECURSIVE Repopulate(_, _, _)
Repopulate(H, live, orig) ==
    IF orig = <<>> THEN [heap |-> H, animations |-> live]
    ELSE IF Contains(live, Head(orig))
         THEN Repopulate(H, live, Tail(orig))
         ELSE Repopulate([H EXCEPT ![Head(orig)] = AnimationReset(H[Head(orig)])],
                         Append(live, Head(orig)), Tail(orig))

\* the two reset loops that open _replay and _step_backward
ResetAndRepopulate(W) ==
    Repopulate(ResetEach(W.heap, W.sc.animations),
               W.sc.animations, W.sc.original_animations)

SceneReplay(W) ==
    LET r == ResetAndRepopulate(W)
        s == TimelineStop(r.heap, W.tl)
    IN  [heap |-> s.heap,
         tl |-> TimelinePlay(s.tl),
         sc |-> [W.sc EXCEPT !.animations = r.animations, !.paused = FALSE]]

SceneStep(W, dt) ==
    LET r == TimelineUpdate(W.heap, W.tl, dt)
    IN  [W EXCEPT !.heap = UpdateEach(r.heap, W.sc.animations, dt),
                  !.tl = r.tl]

SceneGetTotalProgress(W) ==
    IF W.sc.animations # <<>> THEN W.heap[W.sc.animations[1]].elapsed
    ELSE W.tl.current_time

\* target_progress of _step_backward
TargetProgress(W) == Max2(0, SceneGetTotalProgress(W) - StepSize)

SceneStepBackward(W) ==
    LET target == TargetProgress(W)
        r == ResetAndRepopulate(W)
        s == TimelineStop(r.heap, W.tl)
        W1 == [heap |-> s.heap, tl |-> s.tl,
               sc |-> [W.sc EXCEPT !.animations = r.animations]]
        W2 == IF target > 0 THEN SceneStep(W1, target) ELSE W1
    IN  [W2 EXCEPT !.sc.paused = TRUE]

\* a variant that steps without pausing the Scene
SceneStepForwardUnpaused(W) == SceneStep(W, StepSize)

\* K_RIGHT
SceneStepForward(W) == SceneStep([W EXCEPT !.sc.paused = TRUE], StepSize)

\* K_SPACE
SceneTogglePause(W) == [W EXCEPT !.sc.paused = ~@]

\* the first loop of _update: advance each live animation, collect the finished
RECURSIVE UpdateLoop(_, _, _, _)
UpdateLoop(H, s, dt, fin) ==
    IF s = <<>> THEN [heap |-> H, finished |-> fin]
    ELSE LET H1 == [H EXCEPT ![Head(s)] = AnimationUpdate(H[Head(s)], dt)]
         IN  UpdateLoop(H1, Tail(s), dt,
                        IF H1[Head(s)].finished THEN Append(fin, Head(s)) ELSE fin)

\* for anim in finished: live.remove(anim)
RECURSIVE RemoveEach(_, _)
RemoveEach(s, xs) ==
    IF xs = <<>> THEN s ELSE RemoveEach(RemoveFirst(s, Head(xs)), Tail(xs))

\* a variant that leaves the finished animations on the live list
SceneUpdateKeepsLive(W, dt) ==
    IF W.sc.paused THEN W
    ELSE LET r == TimelineUpdate(W.heap, W.tl, dt)
             u == UpdateLoop(r.heap, W.sc.animations, dt, <<>>)
         IN  [heap |-> u.heap, tl |-> r.tl, sc |-> W.sc]

\* _update(dt): r is what timeline.update(dt) leaves and u what the loop over
\* the live list leaves; each is computed once and then used
SceneUpdate(W, dt) ==
    IF W.sc.paused THEN W
    ELSE CHOOSE after \in
             {[heap |-> u.heap, tl |-> r.tl,
               sc |-> [W.sc EXCEPT !.animations = RemoveEach(@, u.finished)]] :
                 <<r, u>> \in
                     {<<t, UpdateLoop(t.heap, W.sc.animations, dt, <<>>)>> :
                         t \in {TimelineUpdate(W.heap, W.tl, dt)}}} : TRUE

------------------------------------------------------------------------------
\* Camera2D and Camera3D (scene/camera.py)
\* Zoom and distance are whole numbers of their unit and angles whole
\* hundredths of a radian (one pixel of an orbit drag); a product is rounded
\* down to that grid.  A float is [kind, v]: a finite v, NaN, or an infinity of
\* sign v.  A float argument is [kind, num, den]: the finite fraction
\* num / den, NaN, or an infinity of sign num.

\* the clamp limits and defaults of Camera2D._zoom
ZoomMin == 5
ZoomMax == 500
ZoomDefault == 50

\* the clamp limits and default of Camera3D._distance
DistanceMin == 1
DistanceMax == 100
DistanceDefault == 10

\* math.pi / 2, the margin 0.01, math.pi / 6 and math.pi / 4 in hundredths
HalfPi == 157
PhiMargin == 1
PhiDefault == 52
ThetaDefault == 79

Fin(n) == [kind |-> "fin", v |-> n]
NaN == [kind |-> "nan", v |-> 0]
PosInf == [kind |-> "inf", v |-> 1]
NegInf == [kind |-> "inf", v |-> -1]

\* x * (num / den) for a finite x > 0
Times(x, f) ==
    IF f.kind = "fin" THEN Fin((x * f.num) \div f.den)
    ELSE IF f.kind = "nan" THEN NaN
    ELSE IF f.num > 0 THEN PosInf ELSE NegInf

\* x + d for a finite x and an argument d of whole hundredths
Plus(x, d) ==
    IF d.kind = "fin" THEN Fin(x + d.num)
    ELSE IF d.kind = "nan" THEN NaN
    ELSE IF d.num > 0 THEN PosInf ELSE NegInf

\* a < b on floats: false whenever one of them is NaN
Less(a, b) ==
    IF a.kind = "nan" \/ b.kind = "nan" THEN FALSE
    ELSE IF a.kind = "fin" /\ b.kind = "fin" THEN a.v < b.v
    ELSE IF a.kind = "inf" /\ b.kind = "inf" THEN a.v < b.v
    ELSE IF a.kind = "inf" THEN a.v < 0
    ELSE b.v > 0

\* Python's min(a, b) and max(a, b): the first argument unless the second is
\* smaller, larger
PyMin(a, b) == IF Less(b, a) THEN b ELSE a
PyMax(a, b) == IF Less(a, b) THEN b ELSE a

\* a variant of the clamp with the arguments of min and max the other way round
ClampArgumentsSwapped(lo, hi, x) == PyMax(PyMin(x, Fin(hi)), Fin(lo))

\* max(lo, min(hi, x))
Clamp(lo, hi, x) == PyMax(Fin(lo), PyMin(Fin(hi), x))

DefaultSize == [width |-> 800, height |-> 600]
Sizes == {DefaultSize, [width |-> 400, height |-> 300]}

\* The pan offset of Camera2D and the target of Camera3D take no part in any
\* clamp: they are held as the default point or a point away from it.
NewCamera2D(size) ==
    [dim |-> 2, size |-> size, position |-> "origin", zoom |-> Fin(ZoomDefault),
     rotation |-> 0]

NewCamera3D(size) ==
    [dim |-> 3, size |-> size, target |-> "origin",
     distance |-> Fin(DistanceDefault), theta |-> ThetaDefault,
     phi |-> Fin(PhiDefault)]

CameraResize(c, size) == [c EXCEPT !.size = size]

\* the positions a pan by (dx, dy) can lead to
Moved(from, dx, dy) ==
    IF dx = 0 /\ dy = 0 THEN {from} ELSE {"origin", "away"}

Camera2DPan(c, dx, dy, to) == [c EXCEPT !.position = to]

\* zoom_by(factor, center): centred is FALSE for center = None
Camera2DZoomBy(c, factor, centred, to) ==
    [c EXCEPT !.zoom = Clamp(ZoomMin, ZoomMax, Times(c.zoom.v, factor)),
              !.position = IF centred THEN to ELSE @]

Camera2DRotate(c, angle) == [c EXCEPT !.rotation = @ + angle]

Camera2DReset(c) ==
    [c EXCEPT !.position = "origin", !.zoom = Fin(ZoomDefault), !.rotation = 0]

Camera3DOrbit(c, d_theta, d_phi) ==
    [c EXCEPT !.theta = @ + d_theta,
              !.phi = Clamp(PhiMargin - HalfPi, HalfPi - PhiMargin,
                            Plus(c.phi.v, d_phi))]

Camera3DPan(c, dx, dy, to) == [c EXCEPT !.target = to]

Camera3DZoomBy(c, factor) ==
    [c EXCEPT !.distance =
        Clamp(DistanceMin, DistanceMax, Times(c.distance.v, factor))]

Camera3DReset(c) ==
    [c EXCEPT !.target = "origin", !.distance = Fin(DistanceDefault),
              !.theta = ThetaDefault, !.phi = Fin(PhiDefault)]

------------------------------------------------------------------------------
\* Vector (core/vector.py) and Matrix (core/matrix.py) as the caller builds
\* them.  lib.vecs are the Vector objects and lib.anims the VectorAnimation
\* objects, each in order of creation and named by its index; lib.raised
\* tells whether the last call raised.  Components are whole numbers; a
\* quotient is rounded down to a whole number.  A call returns
\* [lib, result, raised]: the objects after it, the index of the object it
\* returns (0 if none) and whether it raised.

NewLib == [vecs |-> <<>>, anims |-> <<>>, raised |-> FALSE]

Raise(L) == [lib |-> [L EXCEPT !.raised = TRUE], result |-> 0, raised |-> TRUE]

Return(L, r) ==
    [lib |-> [L EXCEPT !.raised = FALSE], result |-> r, raised |-> FALSE]

Zeros(n) == [i \in 1..n |-> 0]

\* np.dot(x, y)
RECURSIVE DotProduct(_, _)
DotProduct(x, y) ==
    IF x = <<>> THEN 0
    ELSE Head(x) * Head(y) + DotProduct(Tail(x), Tail(y))

\* np.any(x)
AnyNonZero(x) == \E i \in 1..Len(x) : x[i] # 0

\* a variant of the constructor that takes any number of components
VectorInitAnyCount(L, components, origin) ==
    Return([L EXCEPT !.vecs = Append(@,
                [dim |-> Len(components), components |-> components,
                 origin |-> IF origin # <<>> THEN origin
                            ELSE Zeros(Len(components)),
                 color |-> "red", pending |-> 0, previous_state |-> 0])],
           Len(L.vecs) + 1)

\* Vector(*components, origin = origin); origin = <<>> stands for None
VectorInit(L, components, origin) ==
    IF Len(components) \notin {2, 3} THEN Raise(L)
    ELSE Return([L EXCEPT !.vecs = Append(@,
                    [dim |-> Len(components), components |-> components,
                     origin |-> IF origin # <<>> THEN origin
                                ELSE Zeros(Len(components)),
                     color |-> "red", pending |-> 0, previous_state |-> 0])],
                Len(L.vecs) + 1)

\* Matrix(data): data is a sequence of rows; IsSquare is ndim = 2 with as many
\* rows as columns
IsSquare(data) ==
    /\ data # <<>>
    /\ \A i \in 1..Len(data) : Len(data[i]) = Len(data)

MatrixInit(data) ==
    IF ~IsSquare(data) THEN [raised |-> TRUE, dim |-> 0, data |-> <<>>]
    ELSE IF Len(data) \notin {2, 3} THEN [raised |-> TRUE, dim |-> 0, data |-> <<>>]
    ELSE [raised |-> FALSE, dim |-> Len(data), data |-> data]

\* Scene(dim = dim)
SceneInit(dim) ==
    IF dim \notin {2, 3} THEN [raised |-> TRUE, scene |-> <<>>, camera |-> <<>>]
    ELSE [raised |-> FALSE, scene |-> NewScene,
          camera |-> IF dim = 2 THEN NewCamera2D(DefaultSize)
                     ELSE NewCamera3D(DefaultSize)]

\* data @ x; numpy raises when the shapes do not agree
MatVec(data, x) == [i \in 1..Len(data) |-> DotProduct(data[i], x)]

\* v.copy()
VectorCopy(L, v) ==
    LET c == VectorInit(L, L.vecs[v].components, L.vecs[v].origin)
    IN  [c EXCEPT !.lib.vecs[c.result].color = L.vecs[v].color]

\* the tail of transform, scale, add, subtract and project_onto: the result
\* Vector(*components, origin = origin) takes the receiver's color and a copy
\* of the receiver as its previous state
Derive(L, v, components, origin) ==
    LET r == VectorInit(L, components, origin)
        c == VectorCopy(r.lib, v)
    IN  IF r.raised THEN r
        ELSE Return([c.lib EXCEPT !.vecs[r.result].color = L.vecs[v].color,
                                  !.vecs[r.result].previous_state = c.result],
                    r.result)

\* v.transform(matrix), with matrix given as data or as a Matrix of that data
VectorTransform(L, v, data) ==
    LET m == MatrixInit(data)
        x == L.vecs[v]
    IN  IF m.raised THEN Raise(L)
        ELSE IF m.dim # Len(x.components) THEN Raise(L)
        ELSE IF AnyNonZero(x.origin) /\ m.dim # Len(x.origin) THEN Raise(L)
        ELSE Derive(L, v, MatVec(m.data, x.components),
                    IF AnyNonZero(x.origin) THEN MatVec(m.data, x.origin)
                    ELSE x.origin)

VectorScale(L, v, factor) ==
    Derive(L, v, [i \in 1..Len(L.vecs[v].components) |->
                     L.vecs[v].components[i] * factor],
           L.vecs[v].origin)

VectorAdd(L, v, w) ==
    IF L.vecs[v].dim # L.vecs[w].dim THEN Raise(L)
    ELSE Derive(L, v, [i \in 1..L.vecs[v].dim |->
                          L.vecs[v].components[i] + L.vecs[w].components[i]],
                L.vecs[v].origin)

VectorSubtract(L, v, w) ==
    IF L.vecs[v].dim # L.vecs[w].dim THEN Raise(L)
    ELSE Derive(L, v, [i \in 1..L.vecs[v].dim |->
                          L.vecs[v].components[i] - L.vecs[w].components[i]],
                L.vecs[v].origin)

\* v.dot(w): returns a number, creates nothing
VectorDot(L, v, w) ==
    IF L.vecs[v].dim # L.vecs[w].dim THEN Raise(L) ELSE Return(L, 0)

\* v.angle_with(w): returns a number, creates nothing
VectorAngleWith(L, v, w) ==
    IF L.vecs[v].dim # L.vecs[w].dim THEN Raise(L) ELSE Return(L, 0)

\* v.project_onto(w): onto a (near-)zero w the result is Vector(*zeros)
VectorProjectOnto(L, v, w) ==
    LET x == L.vecs[v]
        y == L.vecs[w]
        mag_sq == DotProduct(y.components, y.components)
    IN  IF x.dim # y.dim THEN Raise(L)
        ELSE IF mag_sq = 0 THEN VectorInit(L, Zeros(x.dim), <<>>)
        ELSE Derive(L, v, [i \in 1..x.dim |->
                              (DotProduct(x.components, y.components)
                               * y.components[i]) \div mag_sq],
                    x.origin)

\* v.at(origin): sets the origin of v itself
VectorAt(L, v, origin) == Return([L EXCEPT !.vecs[v].origin = origin], v)

\* v.color(c): sets the color of v itself
VectorColor(L, v, c) == Return([L EXCEPT !.vecs[v].color = c], v)

\* v.animate(duration): VectorAnimation(v._previous_state, v, duration)
\* becomes the pending animation of v, if v has a previous state
VectorAnimate(L, v, duration) ==
    IF L.vecs[v].previous_state = 0 THEN Return(L, v)
    ELSE Return([L EXCEPT !.anims = Append(@,
                    [start |-> L.vecs[v].previous_state, end |-> v,
                     duration |-> duration,
                     easing |-> "ease_in_out_cubic"]),
                          !.vecs[v].pending = Len(L.anims) + 1],
                v)
------------------------------------------------------------------------------
\* Floating-point arithmetic, as numpy and Python carry it out on the
\* components, on the progress and in the easing functions: a binary format
\* of MantissaBits significant bits, every result rounded to the nearest
\* representable number, ties to the even significand.  A float is written
\* as the whole number n of units of 2^-FractionBits it amounts to; FOne is
\* 1.0.  (A double has 53 significant bits; overflow is out of range here.)

FOne == 2 ^ FractionBits

Abs(n) == IF n < 0 THEN -n ELSE n

\* n / d rounded to the nearest whole number, ties to even (n >= 0, d > 0)
RoundHalfEven(n, d) ==
    LET q == n \div d
        r == n % d
    IN  IF 2 * r < d THEN q
        ELSE IF 2 * r > d THEN q + 1
        ELSE IF q % 2 = 0 THEN q ELSE q + 1

\* the exponent at which n / d has at most MantissaBits bits before the point
RECURSIVE ExponentOf(_, _, _)
ExponentOf(n, d, e) ==
    IF n < (2 ^ (MantissaBits + e)) * d THEN e ELSE ExponentOf(n, d, e + 1)

\* the float nearest to num / den units (den > 0)
RoundRat(num, den) ==
    LET e == ExponentOf(Abs(num), den, 0)
        m == RoundHalfEven(Abs(num), den * (2 ^ e))
    IN  IF num < 0 THEN -(m * (2 ^ e)) ELSE m * (2 ^ e)

Representable(n) == RoundRat(n, 1) = n

FAdd(x, y) == RoundRat(x + y, 1)
FSub(x, y) == RoundRat(x - y, 1)
FMul(x, y) == RoundRat(x * y, FOne)
FDiv(x, y) == IF y < 0 THEN RoundRat(-(x * FOne), -y) ELSE RoundRat(x * FOne, y)

\* x ** 3
FCube(x) == RoundRat(x * x * x, FOne * FOne)

\* Easing (animation/easing.py)
EasingLinear(t) == t

EasingInQuad(t) == FMul(t, t)

\* the two branches of ease_in_out_cubic
InOutCubicFirst(t) == FMul(4 * FOne, FCube(t))

InOutCubicSecond(t) ==
    FSub(FOne, FDiv(FCube(FAdd(FMul(-2 * FOne, t), 2 * FOne)), 2 * FOne))

EasingInOutCubic(t) ==
    IF 2 * t < FOne THEN InOutCubicFirst(t) ELSE InOutCubicSecond(t)

\* a decimal literal num / den of the source, as the float it is read as
Lit(num, den) == RoundRat(num * FOne, den)

\* x ** 2
FSquare(x) == FMul(x, x)

EasingOutQuad(t) == FSub(FOne, FSquare(FSub(FOne, t)))

\* the two branches of ease_in_out_quad
InOutQuadFirst(t) == FMul(FMul(2 * FOne, t), t)

InOutQuadSecond(t) == FSub(FOne, FMul(2 * FOne, FSquare(FSub(FOne, t))))

EasingInOutQuad(t) ==
    IF t < Lit(1, 2) THEN InOutQuadFirst(t) ELSE InOutQuadSecond(t)

EasingInCubic(t) == FCube(t)

EasingOutCubic(t) == FSub(FOne, FCube(FSub(FOne, t)))

\* math.pi: the float nearest to pi
Pi == Lit(355, 113)

\* math.sin, math.cos and 2 ** -x of the C library, which return the float
\* nearest to the exact value: entry n + 1 is the value at n eighths, in
\* eighths, for the format of three significant bits
SinTable ==
    <<0, 1, 2, 3, 4, 5, 5, 6, 7, 7, 8, 8, 8, 8, 8, 8,
      7, 7, 6, 6, 5, 4, 3, 2, 1, 0, -1, -2, -3, -4, -5, -5,
      -6, -7, -7, -8, -8, -8, -8, -8, -8, -7, -7, -6, -6, -5, -4, -3,
      -2, -1, 0, 1, 2, 3, 4, 4, 5, 6, 7, 7, 8, 8, 8, 8,
      8, 8, 7, 7, 6, 6, 5, 4, 3, 2, 1, 0, -1, -2, -3, -3,
      -4, -5, -6, -7, -7, -7, -8, -8, -8, -8, -8, -7, -7, -6, -6, -5,
      -4, -3, -2, -2, -1, 0, 1, 2, 3, 4, 5, 6, 6, 7, 7, 8,
      8, 8, 8, 8, 7, 7, 7, 6, 5, 4, 4, 3, 2, 1, 0, -1,
      -2, -3, -4, -5, -6, -6, -7, -7, -8, -8, -8, -8, -8, -8, -7, -7,
      -6, -5, -5, -4, -3, -2, -1, 0, 1, 2, 3, 4, 5, 6, 6, 7,
      7>>

CosTable ==
    <<8, 8, 8, 7, 7, 6, 6, 5, 4, 3, 3, 2, 1>>

ExpTable ==
    <<8, 7, 7, 6, 6, 5, 5, 4, 4, 4, 3, 3, 3, 3, 2, 2,
      2, 2, 2, 2, 1, 1, 1, 1, 1, 1, 1, 1, 1, 1, 1, 1>>

\* math.sin(x), 0 <= x <= 20
MathSin(x) == SinTable[x + 1]

\* math.cos(x), 0 <= x <= 1.5
MathCos(x) == CosTable[x + 1]

\* 2 ** x, x <= 0: below 2 ** -4 the nearest float is 0
PowerOfTwo(x) == IF -x < Len(ExpTable) THEN ExpTable[1 - x] ELSE 0

EasingInSine(t) == FSub(FOne, MathCos(FDiv(FMul(t, Pi), 2 * FOne)))

EasingOutSine(t) == MathSin(FDiv(FMul(t, Pi), 2 * FOne))

EasingOutElastic(t) ==
    IF t = 0 \/ t = FOne THEN t
    ELSE FAdd(FMul(PowerOfTwo(FMul(-10 * FOne, t)),
                   MathSin(FDiv(FMul(FSub(FMul(t, 10 * FOne), Lit(3, 4)),
                                     FMul(2 * FOne, Pi)),
                                3 * FOne))),
              FOne)

\* the four branches of ease_out_bounce and the three boundaries between them
BounceFirst(t) == FMul(FMul(Lit(121, 16), t), t)

BounceSecond(t) ==
    LET u == FSub(t, FDiv(Lit(3, 2), Lit(11, 4)))
    IN  FAdd(FMul(FMul(Lit(121, 16), u), u), Lit(3, 4))

BounceThird(t) ==
    LET u == FSub(t, FDiv(Lit(9, 4), Lit(11, 4)))
    IN  FAdd(FMul(FMul(Lit(121, 16), u), u), Lit(15, 16))

BounceFourth(t) ==
    LET u == FSub(t, FDiv(Lit(21, 8), Lit(11, 4)))
    IN  FAdd(FMul(FMul(Lit(121, 16), u), u), Lit(63, 64))

BounceBoundaries ==
    <<FDiv(FOne, Lit(11, 4)), FDiv(2 * FOne, Lit(11, 4)),
      FDiv(Lit(5, 2), Lit(11, 4))>>

EasingOutBounce(t) ==
    IF t < BounceBoundaries[1] THEN BounceFirst(t)
    ELSE IF t < BounceBoundaries[2] THEN BounceSecond(t)
    ELSE IF t < BounceBoundaries[3] THEN BounceThird(t)
    ELSE BounceFourth(t)

Easings == {"linear", "ease_in_quad", "ease_in_out_cubic"}

\* every function of the Easing class
AllEasings ==
    Easings \cup {"ease_out_quad", "ease_in_out_quad", "ease_in_cubic",
                  "ease_out_cubic", "ease_in_sine", "ease_out_sine",
                  "ease_out_elastic", "ease_out_bounce"}

ApplyEasing(f, t) ==
    CASE f = "linear" -> EasingLinear(t)
      [] f = "ease_in_quad" -> EasingInQuad(t)
      [] f = "ease_in_out_cubic" -> EasingInOutCubic(t)
      [] f = "ease_out_quad" -> EasingOutQuad(t)
      [] f = "ease_in_out_quad" -> EasingInOutQuad(t)
      [] f = "ease_in_cubic" -> EasingInCubic(t)
      [] f = "ease_out_cubic" -> EasingOutCubic(t)
      [] f = "ease_in_sine" -> EasingInSine(t)
      [] f = "ease_out_sine" -> EasingOutSine(t)
      [] f = "ease_out_elastic" -> EasingOutElastic(t)
      [] f = "ease_out_bounce" -> EasingOutBounce(t)

\* Animation.progress as a float: min(1.0, elapsed / duration), 1.0 for
\* duration 0
FloatProgress(an) ==
    IF an.duration = 0 THEN FOne
    ELSE LET q == FDiv(an.elapsed, an.duration)
         IN  IF q < FOne THEN q ELSE FOne

\* Animation.eased_progress
EasedProgress(an, f) == ApplyEasing(f, FloatProgress(an))

\* a variant that interpolates back from the end: end - (1 - t) * (end - start)
LerpFromEnd(s, e, t) ==
    [i \in 1..Len(s) |-> FSub(e[i], FMul(FSub(FOne, t), FSub(e[i], s[i])))]

\* start + t * (end - start), element by element
Lerp(s, e, t) ==
    [i \in 1..Len(s) |-> FAdd(s[i], FMul(t, FSub(e[i], s[i])))]

\* VectorAnimation.get_value() of animation a of L, whose Animation fields
\* are an
VectorAnimationGetValue(L, a, an) ==
    LET t == EasedProgress(an, L.anims[a].easing)
        s == L.vecs[L.anims[a].start]
        e == L.vecs[L.anims[a].end]
    IN  [components |-> Lerp(s.components, e.components, t),
         origin |-> Lerp(s.origin, e.origin, t)]

\* np.eye(dim)
Identity(dim) == [i \in 1..dim |-> [j \in 1..dim |-> IF i = j THEN FOne ELSE 0]]

\* a variant that interpolates from the zero matrix
GridValueFromZero(data, t) ==
    [i \in 1..Len(data) |-> Lerp(Zeros(Len(data)), data[i], t)]

\* identity + t * (matrix._data - identity)
GridValue(data, t) ==
    [i \in 1..Len(data) |-> Lerp(Identity(Len(data))[i], data[i], t)]

\* GridTransformAnimation.get_value()
GridTransformAnimationGetValue(L, a, an) ==
    GridValue(L.anims[a].matrix, EasedProgress(an, L.anims[a].easing))
------------------------------------------------------------------------------
\* Camera2D (scene/camera.py) with its coordinates: the position, the zoom
\* and the points it maps are rational numbers [num, den] in lowest terms,
\* den > 0, computed exactly; the rotation is held as its cosine and sine,
\* which are rational for the angles used.

RECURSIVE Gcd(_, _)
Gcd(a, b) == IF b = 0 THEN a ELSE Gcd(b, a % b)

\* num / den in lowest terms (den # 0)
Q(num, den) ==
    LET g == Gcd(Abs(num), Abs(den))
    IN  IF den < 0 THEN [num |-> (-num) \div g, den |-> (-den) \div g]
        ELSE [num |-> num \div g, den |-> den \div g]

Whole(n) == [num |-> n, den |-> 1]

QNeg(a) == [num |-> -a.num, den |-> a.den]

\* sums over the least common denominator and products with the common
\* factors taken out first, which keeps the numbers small
QAdd(a, b) ==
    LET g == Gcd(a.den, b.den)
    IN  Q(a.num * (b.den \div g) + b.num * (a.den \div g),
          (a.den \div g) * b.den)

QSub(a, b) == QAdd(a, QNeg(b))

QMul(a, b) ==
    LET g == Gcd(Abs(a.num), b.den)
        h == Gcd(Abs(b.num), a.den)
    IN  IF a.num = 0 \/ b.num = 0 THEN Whole(0)
        ELSE Q((a.num \div g) * (b.num \div h),
               (a.den \div h) * (b.den \div g))

QDiv(a, b) ==
    QMul(a, IF b.num < 0 THEN [num |-> -b.den, den |-> -b.num]
            ELSE [num |-> b.den, den |-> b.num])
QLess(a, b) == a.num * b.den < b.num * a.den

\* x / 2 for a whole number x (self._width / 2)
Half(x) == Q(x, 2)

\* an angle, as [c, s] = [cos, sin]; the sum of two angles
NoTurn == [c |-> Whole(1), s |-> Whole(0)]

TurnSum(a, b) ==
    [c |-> QSub(QMul(a.c, b.c), QMul(a.s, b.s)),
     s |-> QAdd(QMul(a.s, b.c), QMul(a.c, b.s))]

\* (x, y) turned by the angle a: (x cos - y sin, x sin + y cos)
Turned(p, a) ==
    <<QSub(QMul(p[1], a.c), QMul(p[2], a.s)),
      QAdd(QMul(p[1], a.s), QMul(p[2], a.c))>>

\* Camera2D(width, height)
NewView(size) ==
    [size |-> size, position |-> <<Whole(0), Whole(0)>>,
     zoom |-> Whole(ZoomDefault), rotation |-> NoTurn]

ViewResize(c, size) == [c EXCEPT !.size = size]

\* pan(dx, dy)
ViewPan(c, dx, dy) ==
    [c EXCEPT !.position =
        <<QSub(c.position[1], QDiv(Whole(dx), c.zoom)),
          QAdd(c.position[2], QDiv(Whole(dy), c.zoom))>>]

\* the factors that are no numbers, written with den = 0
QNaN == [num |-> 0, den |-> 0]
QInf == [num |-> 1, den |-> 0]
QNegInf == [num |-> -1, den |-> 0]

\* max(5.0, min(500.0, zoom * factor)): Python's min and max keep their
\* first argument when the comparison with NaN is false
ZoomClamped(zoom, factor) ==
    IF factor = QNaN \/ factor = QInf THEN Whole(ZoomMax)
    ELSE IF factor = QNegInf THEN Whole(ZoomMin)
    ELSE LET z == QMul(zoom, factor)
             m == IF QLess(z, Whole(ZoomMax)) THEN z ELSE Whole(ZoomMax)
         IN  IF QLess(Whole(ZoomMin), m) THEN m ELSE Whole(ZoomMin)

\* a variant of zoom_by that computes the world point under the cursor with
\* the new zoom instead of the old one, and so leaves the position as it is
ViewZoomByNewZoom(c, factor, center) ==
    [c EXCEPT !.zoom = ZoomClamped(c.zoom, factor)]

\* zoom_by(factor, center); center = <<>> stands for None
ViewZoomBy(c, factor, center) ==
    LET old_zoom == c.zoom
        zoom == ZoomClamped(c.zoom, factor)
    IN  IF center = <<>> THEN [c EXCEPT !.zoom = zoom]
        ELSE LET cx == Whole(center[1])
                 cy == Whole(center[2])
                 world_x == QAdd(QDiv(QSub(cx, Half(c.size.width)), old_zoom),
                                 c.position[1])
                 world_y == QAdd(QNeg(QDiv(QSub(cy, Half(c.size.height)),
                                           old_zoom)),
                                 c.position[2])
                 new_screen_x ==
                     QAdd(QMul(QSub(world_x, c.position[1]), zoom),
                          Half(c.size.width))
                 new_screen_y ==
                     QAdd(QNeg(QMul(QSub(world_y, c.position[2]), zoom)),
                          Half(c.size.height))
             IN  [c EXCEPT
                    !.zoom = zoom,
                    !.position =
                        <<QAdd(c.position[1],
                               QDiv(QSub(new_screen_x, cx), zoom)),
                          QSub(c.position[2],
                               QDiv(QSub(new_screen_y, cy), zoom))>>]

\* rotate(angle)
ViewRotate(c, angle) == [c EXCEPT !.rotation = TurnSum(@, angle)]

\* reset()
ViewReset(c) ==
    [c EXCEPT !.position = <<Whole(0), Whole(0)>>,
              !.zoom = Whole(ZoomDefault), !.rotation = NoTurn]

\* the angle -a
Back(a) == [c |-> a.c, s |-> QNeg(a.s)]

\* a variant of world_to_screen that turns the point the same way as
\* screen_to_world does
WorldToScreenSameTurn(c, p) ==
    LET r == IF c.rotation # NoTurn THEN Turned(p, c.rotation) ELSE p
    IN  <<QAdd(QMul(QSub(r[1], c.position[1]), c.zoom), Half(c.size.width)),
          QAdd(QNeg(QMul(QSub(r[2], c.position[2]), c.zoom)),
               Half(c.size.height))>>

\* world_to_screen(x, y), p = (x, y)
WorldToScreen(c, p) ==
    LET r == IF c.rotation # NoTurn THEN Turned(p, Back(c.rotation)) ELSE p
    IN  <<QAdd(QMul(QSub(r[1], c.position[1]), c.zoom), Half(c.size.width)),
          QAdd(QNeg(QMul(QSub(r[2], c.position[2]), c.zoom)),
               Half(c.size.height))>>

\* screen_to_world(screen_x, screen_y), p = (screen_x, screen_y)
ScreenToWorld(c, p) ==
    LET x == QAdd(QDiv(QSub(p[1], Half(c.size.width)), c.zoom), c.position[1])
        y == QAdd(QNeg(QDiv(QSub(p[2], Half(c.size.height)), c.zoom)),
                  c.position[2])
    IN  IF c.rotation # NoTurn THEN Turned(<<x, y>>, c.rotation) ELSE <<x, y>>
------------------------------------------------------------------------------
\* The state machine.

World == [heap |-> heap, tl |-> timeline, sc |-> scene]

Becomes(W) ==
    /\ heap' = W.heap
    /\ timeline' = W.tl
    /\ scene' = W.sc
    /\ UNCHANGED <<vectors, ends, camera, lib>>

\* the playhead stays within MaxTime
TimeOK(tl, dt) ==
    (tl.is_playing /\ ~tl.is_finished) => tl.current_time + dt <= MaxTime

\* The caller registers an Animation object it holds (a <= Len(heap)) or one it
\* has just constructed with duration d (a = Len(heap) + 1).
Holds(a, d) ==
    \/ a \in 1..Len(heap) /\ d = 0
    \/ a = Len(heap) + 1 /\ a <= MaxAnim /\ d \in Durations

HeapWith(a, d) == IF a = Len(heap) + 1 THEN Append(heap, NewAnimation(d)) ELSE heap

Init ==
    /\ heap = <<>>
    /\ timeline = NewTimeline
    /\ scene = NewScene
    /\ vectors = <<>>
    /\ ends = <<>>
    /\ camera = NewCamera2D(DefaultSize)
    /\ lib = NewLib

\* timeline.at(t).add(a), while no more than n entries are scheduled
ScheduleUpTo(n) ==
    \E t \in StartTimes, a \in AnimId, d \in Durations :
        /\ Holds(a, d)
        /\ Len(Entries(timeline.animations)) < n
        /\ Becomes([World EXCEPT !.heap = HeapWith(a, d),
                                 !.tl = TimelineAddAt(timeline, t, a)])

Schedule ==
    /\ ScheduleUpTo(MaxSched)

\* scene.timeline.at(t).add(a)
SceneSchedule ==
    /\ ScheduleUpTo(MaxSceneSched)

\* Timeline.play(), also the first statement of Scene.play()
Play ==
    /\ Becomes([World EXCEPT !.tl = TimelinePlay(timeline)])

Pause ==
    /\ Becomes([World EXCEPT !.tl = TimelinePause(timeline)])

Stop ==
    /\ LET s == TimelineStop(heap, timeline)
       IN  Becomes([World EXCEPT !.heap = s.heap, !.tl = s.tl])

\* timeline.update(dt)
Update ==
    \E dt \in Dts :
        /\ TimeOK(timeline, dt)
        /\ LET r == TimelineUpdate(heap, timeline, dt)
           IN  Becomes([World EXCEPT !.heap = r.heap, !.tl = r.tl])

\* scene._add_animation(a)
AddAnimation ==
    \E a \in AnimId, d \in Durations :
        /\ Holds(a, d)
        /\ Len(scene.original_animations) < MaxAdmit
        /\ Becomes(SceneAddAnimation([World EXCEPT !.heap = HeapWith(a, d)], a))

Clear ==
    /\ Becomes(SceneClear(World))

\* one frame of Scene.show
Tick ==
    \E dt \in Dts :
        /\ scene.paused \/ TimeOK(timeline, dt)
        /\ Becomes(SceneUpdate(World, dt))

Replay ==
    /\ Becomes(SceneReplay(World))

TogglePause ==
    /\ Becomes(SceneTogglePause(World))

StepForward ==
    /\ TimeOK(timeline, StepSize)
    /\ Becomes(SceneStepForward(World))

StepBackward ==
    /\ Becomes(SceneStepBackward(World))

\* Animation(duration = d)
Construct ==
    \E d \in Durations :
        /\ Len(heap) < MaxAnim
        /\ Becomes([World EXCEPT !.heap = Append(heap, NewAnimation(d))])

\* anim.update(dt), called on the object itself
AnimUpdate ==
    \E a \in 1..Len(heap), dt \in Dts :
        /\ Becomes([World EXCEPT !.heap[a] = AnimationUpdate(heap[a], dt)])

\* anim.reset(), called on the object itself
AnimReset ==
    \E a \in 1..Len(heap) :
        /\ Becomes([World EXCEPT !.heap[a] = AnimationReset(heap[a])])

\* Animation objects used on their own
AnimationNext ==
    \/ Construct
    \/ AnimUpdate
    \/ AnimReset

AnimationSpec == Init /\ [][AnimationNext]_vars

\* Vector(...).transform(M), scale(k), ...: a new Vector object
CreateVector ==
    \E val \in Values :
        /\ Len(vectors) < MaxVec
        /\ vectors' = Append(vectors, NewVector(val))
        /\ UNCHANGED <<heap, timeline, scene, ends, camera, lib>>

\* v.animate(d): a new VectorAnimation ending at v becomes v's pending one
Animate ==
    \E v \in 1..Len(vectors), d \in Durations :
        /\ Len(heap) < MaxAnim
        /\ heap' = Append(heap, NewAnimation(d))
        /\ ends' = ((Len(heap) + 1) :> v) @@ ends
        /\ vectors' = [vectors EXCEPT ![v].pending = Len(heap) + 1]
        /\ UNCHANGED <<timeline, scene, camera, lib>>

\* one round of the loop of show(), or v.show(scene)
Admit ==
    \E v \in 1..Len(vectors) :
        /\ Len(scene.original_animations) < MaxAdmit
        /\ Becomes(SceneAdmit(World, vectors, v))

\* scene.add(v)
AddObject ==
    \E v \in 1..Len(vectors) :
        /\ Becomes(SceneAdd(World, vectors, v))

\* scene.remove(v)
Remove ==
    \E v \in 1..Len(vectors) :
        /\ Becomes(SceneRemove(World, vectors, v))

\* A Scene that is given Vectors and their animations, ticked, stepped and
\* replayed
AdmissionNext ==
    \/ CreateVector
    \/ Animate
    \/ Admit
    \/ AddObject
    \/ Remove
    \/ Clear
    \/ Tick
    \/ Replay
    \/ StepForward
    \/ StepBackward

AdmissionSpec == Init /\ [][AdmissionNext]_vars

\* the float arguments of the camera commands
Frac(n, d) == [kind |-> "fin", num |-> n, den |-> d]
Specials ==
    {[kind |-> "nan", num |-> 0, den |-> 1],
     [kind |-> "inf", num |-> 1, den |-> 1],
     [kind |-> "inf", num |-> -1, den |-> 1]}

\* zoom factors: those of the scroll wheel (0.9, 1.1) and out-of-range ones
Factors == {Frac(n, 10) : n \in {-10, 0, 1, 9, 11, 100, 1000}} \cup Specials

\* elevation changes, in hundredths of a radian
DPhis == {Frac(n, 1) : n \in {-400, -50, 0, 50, 400}} \cup Specials

\* pointer drags, in pixels
Drags == {-MaxDrag, 0, MaxDrag}

\* azimuth and rotation changes, in hundredths of a radian
Turns == {-100, 0, 100}

\* the azimuth and the rotation stay within MaxTurn turns of their defaults
TurnOK(angle, default) ==
    angle - default <= 100 * MaxTurn /\ default - angle <= 100 * MaxTurn

\* a variant in which a camera command also pauses the Scene
CameraBecomesPausing(c) ==
    /\ camera' = c
    /\ scene' = [scene EXCEPT !.paused = TRUE]
    /\ UNCHANGED <<heap, timeline, vectors, ends, lib>>

CameraBecomes(c) ==
    /\ camera' = c
    /\ UNCHANGED <<heap, timeline, scene, vectors, ends, lib>>

\* Camera2D(width, height) or Camera3D(width, height), by the Scene's dim
CameraInit ==
    /\ heap = <<>>
    /\ timeline = NewTimeline
    /\ scene = NewScene
    /\ vectors = <<>>
    /\ ends = <<>>
    /\ camera \in {NewCamera2D(DefaultSize), NewCamera3D(DefaultSize)}
    /\ lib = NewLib

Resize ==
    \E size \in Sizes :
        /\ CameraBecomes(CameraResize(camera, size))

Pan2D ==
    \E dx \in Drags, dy \in Drags :
        /\ camera.dim = 2
        /\ \E to \in Moved(camera.position, dx, dy) :
              CameraBecomes(Camera2DPan(camera, dx, dy, to))

ZoomBy2D ==
    \E factor \in Factors, centred \in BOOLEAN :
        /\ camera.dim = 2
        /\ \E to \in Moved(camera.position, IF centred THEN 1 ELSE 0, 0) :
              CameraBecomes(Camera2DZoomBy(camera, factor, centred, to))

Rotate2D ==
    \E angle \in Turns :
        /\ camera.dim = 2
        /\ TurnOK(camera.rotation + angle, 0)
        /\ CameraBecomes(Camera2DRotate(camera, angle))

Reset2D ==
    /\ camera.dim = 2
    /\ CameraBecomes(Camera2DReset(camera))

Orbit3D ==
    \E d_theta \in Turns, d_phi \in DPhis :
        /\ camera.dim = 3
        /\ TurnOK(camera.theta + d_theta, ThetaDefault)
        /\ CameraBecomes(Camera3DOrbit(camera, d_theta, d_phi))

Pan3D ==
    \E dx \in Drags, dy \in Drags :
        /\ camera.dim = 3
        /\ \E to \in Moved(camera.target, dx, dy) :
              CameraBecomes(Camera3DPan(camera, dx, dy, to))

ZoomBy3D ==
    \E factor \in Factors :
        /\ camera.dim = 3
        /\ CameraBecomes(Camera3DZoomBy(camera, factor))

Reset3D ==
    /\ camera.dim = 3
    /\ CameraBecomes(Camera3DReset(camera))

\* The camera of a Scene under the camera commands
CameraNext ==
    \/ Resize
    \/ Pan2D
    \/ ZoomBy2D
    \/ Rotate2D
    \/ Reset2D
    \/ Orbit3D
    \/ Pan3D
    \/ ZoomBy3D
    \/ Reset3D

CameraSpec == CameraInit /\ [][CameraNext]_vars

------------------------------------------------------------------------------
\* A caller building Vectors, Matrices and Scenes: every public operation of
\* Vector on objects the caller holds, with arguments of every dimension.

\* component tuples a caller passes: of 1 to 4 numbers
ComponentTuples == {<<1>>, <<1, 0>>, <<0, 0>>, <<0, 1, 1>>, <<1, 0, 0, 1>>}

\* origins a caller passes
Origins == {<<1, 1>>, <<1, 1, 1>>}

\* matrix data a caller passes: 1x1, 2x2, 2x3, 3x3 and 4x4
MatrixData ==
    {<<<<2>>>>,
     <<<<2, 0>>, <<0, 2>>>>,
     <<<<1, 0, 0>>, <<0, 1, 0>>>>,
     <<<<1, 0, 0>>, <<0, 2, 0>>, <<0, 0, 1>>>>,
     <<<<1, 0, 0, 0>>, <<0, 1, 0, 0>>, <<0, 0, 1, 0>>, <<0, 0, 0, 1>>>>}

SceneDims == 1..4

\* the Vectors a caller can name: all but the private previous states
Held(L) ==
    {v \in 1..Len(L.vecs) :
        \A u \in 1..Len(L.vecs) : L.vecs[u].previous_state # v}

\* room for the two objects an operation may create
Room(L) == Len(L.vecs) + 2 <= MaxObj

LibBecomes(r) ==
    /\ lib' = r.lib
    /\ UNCHANGED <<heap, timeline, scene, vectors, ends, camera>>

ConstructVector ==
    /\ Room(lib)
    /\ \E c \in ComponentTuples, o \in {<<>>} \cup Origins :
          LibBecomes(VectorInit(lib, c, o))

ConstructMatrix ==
    /\ \E d \in MatrixData :
          LibBecomes(IF MatrixInit(d).raised THEN Raise(lib) ELSE Return(lib, 0))

ConstructScene ==
    /\ \E d \in SceneDims :
          LibBecomes(IF SceneInit(d).raised THEN Raise(lib) ELSE Return(lib, 0))

Copy ==
    /\ Room(lib)
    /\ \E v \in Held(lib) : LibBecomes(VectorCopy(lib, v))

Transform ==
    /\ Room(lib)
    /\ \E v \in Held(lib), d \in MatrixData :
          LibBecomes(VectorTransform(lib, v, d))

Scale ==
    /\ Room(lib)
    /\ \E v \in Held(lib) : LibBecomes(VectorScale(lib, v, 2))

Add ==
    /\ Room(lib)
    /\ \E v, w \in Held(lib) : LibBecomes(VectorAdd(lib, v, w))

Subtract ==
    /\ Room(lib)
    /\ \E v, w \in Held(lib) : LibBecomes(VectorSubtract(lib, v, w))

Dot ==
    /\ \E v, w \in Held(lib) : LibBecomes(VectorDot(lib, v, w))

AngleWith ==
    /\ \E v, w \in Held(lib) : LibBecomes(VectorAngleWith(lib, v, w))

ProjectOnto ==
    /\ Room(lib)
    /\ \E v, w \in Held(lib) : LibBecomes(VectorProjectOnto(lib, v, w))

At ==
    /\ \E v \in Held(lib), o \in Origins : LibBecomes(VectorAt(lib, v, o))

Color ==
    /\ \E v \in Held(lib) : LibBecomes(VectorColor(lib, v, "blue"))

AnimateVector ==
    /\ Len(lib.anims) < MaxLibAnim
    /\ \E v \in Held(lib) : LibBecomes(VectorAnimate(lib, v, 1))

VectorNext ==
    \/ ConstructVector
    \/ ConstructMatrix
    \/ ConstructScene
    \/ Copy
    \/ Transform
    \/ Scale
    \/ Add
    \/ Subtract
    \/ Dot
    \/ AngleWith
    \/ ProjectOnto
    \/ At
    \/ Color
    \/ AnimateVector

VectorSpec == Init /\ [][VectorNext]_vars

------------------------------------------------------------------------------
\* One VectorAnimation or GridTransformAnimation, built by its constructor
\* and driven by update(dt) and reset(); heap[1] holds its Animation fields.

\* VectorAnimation(start, end, duration, easing)
VectorAnimationInit(L, start, end, duration, easing) ==
    [L EXCEPT !.anims = Append(@,
        [start |-> start, end |-> end, duration |-> duration,
         easing |-> easing])]

\* GridTransformAnimation(matrix, duration, easing)
GridTransformAnimationInit(L, data, duration, easing) ==
    [L EXCEPT !.anims = Append(@,
        [matrix |-> data, duration |-> duration, easing |-> easing])]

\* component and entry values: of several magnitudes, so that differences
\* need not be representable
FloatValues ==
    {n \in {-FOne, 0, 1, FOne + 2, 2 * FOne} : Representable(n)}

FloatPairs == {<<x, y>> : x \in FloatValues, y \in FloatValues}

\* durations of 0.5 and 1.5 and frame times of 0.25 and 0.5
FloatDurations == {FOne \div 2, 3 * (FOne \div 2)}

FloatDts == {FOne \div 4, FOne \div 2}

\* targets of a grid animation: upper triangular 2x2 matrices
TargetEntries == FloatValues \cup {-1}

Targets ==
    {<<<<x, z>>, <<0, y>>>> :
        x \in TargetEntries, y \in TargetEntries, z \in {0, 1}}

IsVectorAnimation(L) == Len(L.anims) = 1 /\ Len(L.vecs) = 2

IsGridAnimation(L) == Len(L.anims) = 1 /\ Len(L.vecs) = 0

InterpolationInit ==
    /\ timeline = NewTimeline
    /\ scene = NewScene
    /\ vectors = <<>>
    /\ ends = <<>>
    /\ camera = NewCamera2D(DefaultSize)
    /\ \E d \in FloatDurations, f \in Easings :
          /\ heap = <<NewAnimation(d)>>
          /\ \/ \E c1 \in FloatPairs, c2 \in FloatPairs, o \in {<<>>} \cup Origins :
                   LET v1 == VectorInit(NewLib, c1, <<>>)
                       v2 == VectorInit(v1.lib, c2, o)
                   IN  /\ ~v2.raised
                       /\ lib = VectorAnimationInit(v2.lib, 1, 2, d, f)
             \/ \E m \in Targets :
                   /\ ~MatrixInit(m).raised
                   /\ lib = GridTransformAnimationInit(NewLib, m, d, f)

HeapBecomes(H) ==
    /\ heap' = H
    /\ UNCHANGED <<timeline, scene, vectors, ends, camera, lib>>

\* anim.update(dt)
Advance ==
    /\ \E dt \in FloatDts :
          HeapBecomes([heap EXCEPT ![1] = AnimationUpdate(heap[1], dt)])

\* anim.reset()
Rewind ==
    /\ HeapBecomes([heap EXCEPT ![1] = AnimationReset(heap[1])])

InterpolationNext ==
    \/ Advance
    \/ Rewind

InterpolationSpec == InterpolationInit /\ [][InterpolationNext]_vars

------------------------------------------------------------------------------
\* One VectorAnimation from the zero vector with any function of the Easing
\* class, driven by update(dt) and reset().

EasingInit ==
    /\ timeline = NewTimeline
    /\ scene = NewScene
    /\ vectors = <<>>
    /\ ends = <<>>
    /\ camera = NewCamera2D(DefaultSize)
    /\ \E d \in FloatDurations, f \in AllEasings, c \in FloatPairs :
          LET v1 == VectorInit(NewLib, <<0, 0>>, <<>>)
              v2 == VectorInit(v1.lib, c, <<>>)
          IN  /\ heap = <<NewAnimation(d)>>
              /\ lib = VectorAnimationInit(v2.lib, 1, 2, d, f)

EasingSpec == EasingInit /\ [][InterpolationNext]_vars

------------------------------------------------------------------------------
\* The event loop of a shown Scene (Scene._handle_events and the frame tick):
\* a Scene of either dim with one admitted animation and one scheduled on its
\* Timeline, started by play(), under the keys, the scroll wheel, pointer
\* drags and window resizes.

EventLoopInit ==
    /\ vectors = <<>>
    /\ ends = <<>>
    /\ lib = NewLib
    /\ \E dim \in {2, 3} : camera = SceneInit(dim).camera
    /\ \E d1 \in {1, MaxDur}, t \in {0, 1} :
          LET H == <<NewAnimation(d1), NewAnimation(1)>>
              W == SceneAddAnimation(
                       [heap |-> H, tl |-> TimelineAddAt(NewTimeline, t, 2),
                        sc |-> NewScene], 1)
          IN  /\ heap = W.heap
              /\ timeline = TimelinePlay(W.tl)
              /\ scene = W.sc

\* pointer drags of the event loop, in pixels
EventDrags == {-100 * MaxDrag, 0, 100 * MaxDrag}

\* the wheel is turned while the zoom and the distance stay within
\* MaxScroll fifths of their defaults
ScrollOK(x, default) == Abs(x.v - default) * 5 <= default * MaxScroll

\* MOUSEBUTTONDOWN with button 4 (up) or 5 (down)
ScrollWheel ==
    /\ \E up \in BOOLEAN :
          \/ /\ camera.dim = 2
             /\ \E to \in Moved(camera.position, 1, 0) :
                   LET c == Camera2DZoomBy(camera,
                               IF up THEN Frac(11, 10) ELSE Frac(9, 10),
                               TRUE, to)
                   IN  ScrollOK(c.zoom, ZoomDefault) /\ CameraBecomes(c)
          \/ /\ camera.dim = 3
             /\ LET c == Camera3DZoomBy(camera,
                             IF up THEN Frac(9, 10) ELSE Frac(11, 10))
                IN  ScrollOK(c.distance, DistanceDefault) /\ CameraBecomes(c)

\* MOUSEMOTION while dragging: pan in 2D; in 3D pan with shift held,
\* otherwise orbit(dx * 0.01, -dy * 0.01)
PointerDrag ==
    /\ \E dx \in EventDrags, dy \in EventDrags, shift \in BOOLEAN :
          \/ /\ camera.dim = 2
             /\ \E to \in Moved(camera.position, dx, dy) :
                   CameraBecomes(Camera2DPan(camera, dx, dy, to))
          \/ /\ camera.dim = 3
             /\ shift
             /\ \E to \in Moved(camera.target, dx, dy) :
                   CameraBecomes(Camera3DPan(camera, dx, dy, to))
          \/ /\ camera.dim = 3
             /\ ~shift
             /\ TurnOK(camera.theta + dx, ThetaDefault)
             /\ CameraBecomes(Camera3DOrbit(camera, dx, Frac(-dy, 1)))

\* K_r, K_SPACE, K_RIGHT, K_LEFT and the frame tick
PlaybackCommand ==
    \/ Tick
    \/ Replay
    \/ TogglePause
    \/ StepForward
    \/ StepBackward

\* K_c, VIDEORESIZE, the scroll wheel and pointer drags
CameraCommand ==
    \/ Reset2D
    \/ Reset3D
    \/ Resize
    \/ ScrollWheel
    \/ PointerDrag

EventLoopNext ==
    \/ Tick
    \/ Replay
    \/ TogglePause
    \/ StepForward
    \/ StepBackward
    \/ Reset2D
    \/ Reset3D
    \/ Resize
    \/ ScrollWheel
    \/ PointerDrag

EventLoopSpec == EventLoopInit /\ [][EventLoopNext]_vars

------------------------------------------------------------------------------
\* A Camera2D under its commands, with its coordinates

\* zoom factors: of the scroll wheel, out of range and no numbers
ViewFactors ==
    {Q(1, 2), Whole(2), Q(11, 10), Q(9, 10), Whole(-1), Whole(1000), QNaN,
     QNegInf}

\* cursor positions; <<>> stands for no center
Cursors == {<<0, 0>>, <<400, 300>>, <<600, 100>>}

\* pointer drags, in pixels
ViewDrags == {-50 * MaxDrag, 0, 50 * MaxDrag}

\* the angle of cosine 3/5 and sine 4/5
ViewAngles == {[c |-> Q(3, 5), s |-> Q(4, 5)]}

\* world points
WorldPoints == {<<Whole(x), Q(y, 2)>> : x \in {-3, 0, 2}, y \in {-1, 0, 3}}

\* the position stays within MaxCoord and MaxDen, the zoom is a whole
\* number and the rotation stays within MaxDen
Within(q) == Abs(q.num) <= MaxCoord /\ q.den <= MaxDen

ViewOK(c) ==
    /\ Within(c.position[1]) /\ Within(c.position[2])
    /\ c.zoom.den = 1
    /\ c.rotation.c.den <= MaxDen /\ c.rotation.s.den <= MaxDen

ViewInit ==
    /\ heap = <<>>
    /\ timeline = NewTimeline
    /\ scene = NewScene
    /\ vectors = <<>>
    /\ ends = <<>>
    /\ lib = NewLib
    /\ camera = NewView(DefaultSize)

ViewBecomes(c) ==
    /\ ViewOK(c)
    /\ CameraBecomes(c)

ResizeView ==
    /\ \E size \in Sizes : ViewBecomes(ViewResize(camera, size))

PanView ==
    /\ \E dx \in ViewDrags, dy \in ViewDrags :
          ViewBecomes(ViewPan(camera, dx, dy))

ZoomView ==
    /\ \E factor \in ViewFactors, center \in {<<>>} \cup Cursors :
          ViewBecomes(ViewZoomBy(camera, factor, center))

RotateView ==
    /\ \E angle \in ViewAngles : ViewBecomes(ViewRotate(camera, angle))

ResetView ==
    /\ ViewBecomes(ViewReset(camera))

ViewNext ==
    \/ ResizeView
    \/ PanView
    \/ ZoomView
    \/ RotateView
    \/ ResetView

ViewSpec == ViewInit /\ [][ViewNext]_vars

------------------------------------------------------------------------------
\* A Timeline used on its own
TimelineNext ==
    \/ Schedule
    \/ Play
    \/ Pause
    \/ Stop
    \/ Update

TimelineSpec == Init /\ [][TimelineNext]_vars

\* A Scene driven by its commands, with its Timeline (scene.timeline) open to
\* the caller
Next ==
    \/ AddAnimation
    \/ SceneSchedule
    \/ Play
    \/ Pause
    \/ Stop
    \/ Clear
    \/ Tick
    \/ Replay
    \/ TogglePause
    \/ StepForward
    \/ StepBackward

Spec == Init /\ [][Next]_vars

\* A Scene set up by admission and scheduling, started by play() and then
\* driven by the transport commands of the event loop alone
TransportNext ==
    \/ AddAnimation
    \/ SceneSchedule
    \/ Play
    \/ Tick
    \/ Replay
    \/ TogglePause
    \/ StepForward
    \/ StepBackward

TransportSpec == Init /\ [][TransportNext]_vars

\* Scene.play(): a Scene is set up by admission and scheduling, play() starts
\* its Timeline and enters the loop of show(), which calls _update(dt) once a
\* frame with dt > 0 for as long as the window is open.
PlaybackStarted == timeline.is_playing \/ timeline.is_finished

\* one frame of the loop with time passing
Frame ==
    \E dt \in Dts \ {0} :
        /\ PlaybackStarted
        /\ Becomes(SceneUpdate(World, dt))

PlaybackNext ==
    \/ ~PlaybackStarted /\ AddAnimation
    \/ ~PlaybackStarted /\ SceneSchedule
    \/ ~PlaybackStarted /\ Play
    \/ Frame

\* the loop does not stop calling _update
PlaybackSpec == Init /\ [][PlaybackNext]_vars /\ WF_vars(Frame)

\* The transport keys of the event loop (Scene._handle_events) and the frame
\* tick, as commands applied to a world
TransportCommands ==
    {[kind |-> "tick", dt |-> dt] : dt \in Dts \ {0}}
        \cup {[kind |-> k, dt |-> 0] :
                 k \in {"toggle", "forward", "backward", "replay"}}

Obey(W, c) ==
    CASE c.kind = "tick" -> SceneUpdate(W, c.dt)
      [] c.kind = "toggle" -> SceneTogglePause(W)
      [] c.kind = "forward" -> SceneStepForward(W)
      [] c.kind = "backward" -> SceneStepBackward(W)
      [] c.kind = "replay" -> SceneReplay(W)

RECURSIVE ObeyAll(_, _)
ObeyAll(W, cs) == IF cs = <<>> THEN W ELSE ObeyAll(Obey(W, Head(cs)), Tail(cs))

\* the command sequences of length 0..MaxK
CommandRuns == UNION {[1..n -> TransportCommands] : n \in 0..MaxK}

\* a Scene with one admitted animation and one scheduled on its Timeline,
\* started by play()
StartedWorlds ==
    {[W EXCEPT !.tl = TimelinePlay(W.tl)] :
        W \in {SceneAddAnimation(
                   [heap |-> <<NewAnimation(d1), NewAnimation(d2)>>,
                    tl |-> TimelineAddAt(NewTimeline, t, 2),
                    sc |-> NewScene], 1) :
                 d1 \in Durations, d2 \in Durations, t \in StartTimes}}

\* the Scene after play() and any commands, un-paused with the space key if
\* it was paused
ResumeInit ==
    /\ vectors = <<>>
    /\ ends = <<>>
    /\ camera = NewCamera2D(DefaultSize)
    /\ lib = NewLib
    /\ \E W0 \in StartedWorlds, cs \in CommandRuns :
          LET W == ObeyAll(W0, cs)
              R == IF W.sc.paused THEN SceneTogglePause(W) ELSE W
          IN  /\ heap = R.heap
              /\ timeline = R.tl
              /\ scene = R.sc

\* one frame of the loop with time passing, no key pressed
ResumedFrame ==
    \E dt \in Dts \ {0} : Becomes(SceneUpdate(World, dt))

\* from then on only frames, and the loop does not stop calling _update
ResumeSpec == ResumeInit /\ [][ResumedFrame]_vars /\ WF_vars(ResumedFrame)

------------------------------------------------------------------------------
\* MatrixScene (scene/matrix_scene.py): the step-by-step player of
\* show_matrix_vector_multiply.  In this state machine the variable scene
\* holds the MatrixScene's animation state and total_steps, the local
\* variable of the method.

\* MatrixScene() and the head of show_matrix_vector_multiply for a matrix
\* with that many rows
NewMatrixScene(rows) ==
    [animation_step |-> 0, animation_timer |-> 0, paused |-> FALSE,
     total_steps |-> rows + 1]

Keys == {"space", "r", "right", "left"}

\* one KEYDOWN event of _handle_events
HandleKey(s, key) ==
    CASE key = "space" -> [s EXCEPT !.paused = ~@]
      [] key = "r" -> [s EXCEPT !.animation_step = 0, !.animation_timer = 0]
      [] key = "right" -> [s EXCEPT !.animation_step = @ + 1]
      [] key = "left" -> [s EXCEPT !.animation_step = Max2(0, @ - 1)]

\* _handle_events: the events of the queue in order
RECURSIVE HandleKeys(_, _)
HandleKeys(s, keys) ==
    IF keys = <<>> THEN s ELSE HandleKeys(HandleKey(s, Head(keys)), Tail(keys))

\* the timer of the loop: a step every _step_duration while not paused
TimerAdvance(s, dt) ==
    IF s.paused THEN s
    ELSE IF s.animation_timer + dt >= StepDuration
         THEN [s EXCEPT !.animation_timer = 0,
                        !.animation_step =
                            IF @ < s.total_steps THEN @ + 1 ELSE @]
         ELSE [s EXCEPT !.animation_timer = @ + dt]

\* one iteration of the loop of show_matrix_vector_multiply
MatrixSceneLoop(s, keys, dt) == TimerAdvance(HandleKeys(s, keys), dt)

\* the events of one frame: none, one key or two
KeyRuns == UNION {[1..n -> Keys] : n \in 0..2}

MatrixSceneInit ==
    /\ heap = <<>>
    /\ timeline = NewTimeline
    /\ vectors = <<>>
    /\ ends = <<>>
    /\ camera = NewCamera2D(DefaultSize)
    /\ lib = NewLib
    /\ \E rows \in 1..MaxRows : scene = NewMatrixScene(rows)

MatrixFrame ==
    \E keys \in KeyRuns, dt \in Dts :
        /\ scene' = MatrixSceneLoop(scene, keys, dt)
        /\ scene'.animation_step <= MaxStep
        /\ UNCHANGED <<heap, timeline, vectors, ends, camera, lib>>

MatrixSceneSpec == MatrixSceneInit /\ [][MatrixFrame]_vars

TypeOK ==
    /\ \A a \in 1..Len(heap) : heap[a].elapsed \in 0..heap[a].duration
    /\ timeline.current_time \in 0..MaxTime

------------------------------------------------------------------------------
\* Vocabulary of the claims.

Idle(an) == an.elapsed = 0 /\ ~an.finished

Range(s) == {s[i] : i \in 1..Len(s)}

AllFinished(H, tl) == \A a \in Range(Roster(tl)) : H[a].finished

Running(tl) == tl.is_playing /\ ~tl.is_finished

\* the entries of animation a that an update reaching playhead now advances
EligibleEntries(tl, a, now) ==
    {i \in 1..Len(Entries(tl.animations)) :
        /\ Entries(tl.animations)[i].anim = a
        /\ Entries(tl.animations)[i].time <= now}

\* every Animation object is scheduled at most once on the Timeline
ScheduledOnce(tl) == \A a \in Range(Roster(tl)) : Count(Roster(tl), a) = 1

------------------------------------------------------------------------------
\* C1: Timeline.update(dt) on a playing, unfinished Timeline adds dt to the
\* playhead, then advances by the full dt (clamped at the duration, once per
\* entry) the animation of exactly those entries whose start time is <= the new
\* playhead and that is not yet finished; an animation all of whose entries
\* start later than the new playhead keeps its elapsed time and finished flag.
C1_UpdateAdvancesEligibleByFullDt ==
    \A dt \in Dts :
        Running(timeline) =>
            LET r == TimelineUpdate(heap, timeline, dt)
                now == timeline.current_time + dt
            IN  /\ r.tl.current_time = now
                /\ \A a \in 1..Len(heap) :
                      LET n == Cardinality(EligibleEntries(timeline, a, now))
                      IN  IF n = 0 \/ heap[a].finished
                          THEN r.heap[a] = heap[a]
                          ELSE /\ r.heap[a].elapsed =
                                    Min2(heap[a].duration, heap[a].elapsed + n * dt)
                               /\ r.heap[a].finished =
                                    (heap[a].elapsed + n * dt >= heap[a].duration)
                               /\ r.heap[a].duration = heap[a].duration

\* a playing Timeline on which update(1) reaches the start time of one idle
\* animation, advancing it by the whole dt, and leaves a later one untouched
C1_Witness ==
    /\ Running(timeline)
    /\ 1 \in Dts
    /\ \E a, b \in 1..Len(heap) :
          LET r == TimelineUpdate(heap, timeline, 1)
              now == timeline.current_time + 1
          IN  /\ a # b
              /\ ScheduledOnce(timeline)
              /\ \E i \in EligibleEntries(timeline, a, now) :
                    Entries(timeline.animations)[i].time = now /\ now > 0
              /\ Idle(heap[a]) /\ heap[a].duration > 1
              /\ r.heap[a].elapsed = 1
              /\ b \in Range(Roster(timeline))
              /\ EligibleEntries(timeline, b, now) = {}
              /\ r.heap[b] = heap[b]

------------------------------------------------------------------------------
\* The scenario of C2 on a time base D: one animation of duration D scheduled
\* at start time 2D on a Timeline that play() has just started.
C2_Scenario(D) ==
    /\ Len(timeline.animations) = 1
    /\ timeline.animations[1].time = 2 * D
    /\ Len(timeline.animations[1].anims) = 1
    /\ heap[timeline.animations[1].anims[1]].duration = D
    /\ Idle(heap[timeline.animations[1].anims[1]])
    /\ timeline.current_time = 0
    /\ Running(timeline)

\* the state after n calls update(D): [heap, tl]
RECURSIVE C2_After(_, _)
C2_After(D, n) ==
    IF n = 0 THEN [heap |-> heap, tl |-> timeline]
    ELSE TimelineUpdate(C2_After(D, n - 1).heap, C2_After(D, n - 1).tl, D)

C2_Anim == timeline.animations[1].anims[1]

\* C2 as claimed: after two update(D) calls (playhead 2D) the animation has
\* elapsed = 0 and is not finished; after the third (playhead 3D) it is
\* finished and the Timeline is finished.
C2_Original ==
    \A D \in 1..MaxDt :
        C2_Scenario(D) =>
            /\ C2_After(D, 2).tl.current_time = 2 * D
            /\ Idle(C2_After(D, 2).heap[C2_Anim])
            /\ C2_After(D, 3).tl.current_time = 3 * D
            /\ C2_After(D, 3).heap[C2_Anim].finished
            /\ C2_After(D, 3).tl.is_finished

\* C2 as amended: the second update(D) (playhead 2D = start time) already
\* advances the animation by the whole dt, so it is finished with elapsed = D
\* while the Timeline is still playing and not finished; after the third
\* (playhead 3D) the animation is finished and the Timeline is finished.
C2_SecondUpdateAlreadyAdvances ==
    \A D \in 1..MaxDt :
        C2_Scenario(D) =>
            /\ Idle(C2_After(D, 1).heap[C2_Anim])
            /\ C2_After(D, 2).tl.current_time = 2 * D
            /\ C2_After(D, 2).heap[C2_Anim].elapsed = D
            /\ C2_After(D, 2).heap[C2_Anim].finished
            /\ Running(C2_After(D, 2).tl)
            /\ C2_After(D, 3).tl.current_time = 3 * D
            /\ C2_After(D, 3).heap[C2_Anim].finished
            /\ C2_After(D, 3).heap[C2_Anim].elapsed = D
            /\ C2_After(D, 3).tl.is_finished
            /\ ~C2_After(D, 3).tl.is_playing

\* the scenario on base 1 after its three updates: playhead 3, all finished
C2_Witness ==
    /\ Len(timeline.animations) = 1
    /\ timeline.animations[1].time = 2
    /\ Len(timeline.animations[1].anims) = 1
    /\ heap[C2_Anim] = [duration |-> 1, elapsed |-> 1, finished |-> TRUE]
    /\ timeline.current_time = 3
    /\ timeline.is_finished

------------------------------------------------------------------------------
\* C3 as claimed: in every reachable Timeline state is_finished is true if
\* and only if the playhead is >= the total duration and every scheduled
\* animation is finished.
C3_Original ==
    timeline.is_finished <=>
        /\ timeline.current_time >= TimelineDuration(heap, timeline)
        /\ AllFinished(heap, timeline)

\* C3 as amended: the equivalence holds of the state an update(dt) leaves when
\* it ran (the Timeline was playing and not finished): it sets is_finished only
\* if the playhead is then >= the total duration and every scheduled animation
\* is finished, and, when no Animation object is scheduled twice, whenever that
\* is so.  No other operation sets is_finished: play() and stop() clear it,
\* pause() and scheduling keep it.
C3_FinishedDecidedByUpdate ==
    /\ \A dt \in Dts :
          Running(timeline) =>
              LET r == TimelineUpdate(heap, timeline, dt)
                  done == /\ r.tl.current_time >= TimelineDuration(r.heap, r.tl)
                          /\ AllFinished(r.heap, r.tl)
              IN  /\ r.tl.is_finished => done
                  /\ (ScheduledOnce(timeline) /\ done) => r.tl.is_finished
    /\ ~TimelinePlay(timeline).is_finished
    /\ ~TimelineStop(heap, timeline).tl.is_finished
    /\ TimelinePause(timeline).is_finished = timeline.is_finished
    /\ \A t \in StartTimes, a \in 1..Len(heap) :
          TimelineAddAt(timeline, t, a).is_finished = timeline.is_finished

\* a running Timeline with a scheduled animation that one update(dt) finishes,
\* reaching the total duration
C3_Witness ==
    /\ Running(timeline)
    /\ timeline.animations # <<>>
    /\ ~AllFinished(heap, timeline)
    /\ \E dt \in Dts : TimelineUpdate(heap, timeline, dt).tl.is_finished

------------------------------------------------------------------------------
Live == Range(scene.animations)

Original == Range(scene.original_animations)

\* C4: a frame tick of an unpaused Scene advances the Timeline and every live
\* animation by dt, then removes from the live list exactly the finished
\* animations, each of which stays in the original record; a tick of a paused
\* Scene changes nothing.
C4_TickAdvancesAndPrunes ==
    \A dt \in Dts :
        LET W2 == SceneUpdate(World, dt)
        IN  IF scene.paused THEN W2 = World
            ELSE /\ W2.tl = TimelineUpdate(heap, timeline, dt).tl
                 /\ \A a \in Live : W2.heap[a] = AnimationUpdate(heap[a], dt)
                 /\ W2.sc.animations =
                        SelectSeq(scene.animations, LAMBDA a : ~W2.heap[a].finished)
                 /\ W2.sc.original_animations = scene.original_animations
                 /\ Live \subseteq Original

\* an unpaused Scene whose live list holds one animation twice: a tick of 1
\* advances it by 2, finishes it and leaves one finished reference in the list
C4_Witness ==
    /\ ~scene.paused
    /\ \E a \in Live :
          /\ Count(scene.animations, a) = 2
          /\ a \notin Range(Roster(timeline))
          /\ heap[a].elapsed = 0 /\ heap[a].duration = 2
          /\ SceneUpdate(World, 1).heap[a].finished
          /\ a \in Range(SceneUpdate(World, 1).sc.animations)

------------------------------------------------------------------------------
\* C5: after replay, from any reachable Scene state, every animation of the
\* original record has elapsed = 0 and is not finished, the live list holds
\* exactly the animations of the original record, the playhead is 0, the
\* Timeline is playing and not finished, and the Scene is not paused.
C5_ReplayRestarts ==
    LET W2 == SceneReplay(World)
    IN  /\ \A a \in Original : Idle(W2.heap[a])
        /\ Range(W2.sc.animations) = Original
        /\ W2.sc.original_animations = scene.original_animations
        /\ W2.tl.current_time = 0
        /\ W2.tl.is_playing
        /\ ~W2.tl.is_finished
        /\ ~W2.sc.paused

\* a paused Scene whose Timeline has finished and moved on, with an animation
\* that finished and left the live list: replay has all of this to undo
C5_Witness ==
    /\ scene.paused
    /\ timeline.is_finished
    /\ timeline.current_time > 0
    /\ \E a \in Original : a \notin Live /\ heap[a].finished /\ heap[a].elapsed > 0
    /\ \E b \in Live : heap[b].elapsed > 0

------------------------------------------------------------------------------
\* C6: after step backward with target progress T the playhead equals T, every
\* animation of the original record is in the live list with
\* elapsed = min(duration, T), and the Scene is paused.
C6_StepBackwardSeeksTarget ==
    LET T == TargetProgress(World)
        W2 == SceneStepBackward(World)
    IN  /\ W2.tl.current_time = T
        /\ \A a \in Original :
              /\ a \in Range(W2.sc.animations)
              /\ W2.heap[a].elapsed = Min2(heap[a].duration, T)
        /\ W2.sc.paused

\* a Scene with a running Timeline and a positive target: after step backward
\* the Timeline is stopped at playhead 0 while the live animations stand at T
C6_Witness ==
    /\ Running(timeline)
    /\ timeline.current_time > 0
    /\ TargetProgress(World) > 0
    /\ SceneStepBackward(World).tl.current_time = 0
    /\ ~SceneStepBackward(World).tl.is_playing
    /\ \E a \in Live :
          SceneStepBackward(World).heap[a].elapsed = TargetProgress(World)

------------------------------------------------------------------------------
\* the aggregate progress as the specification defines it: the elapsed time of
\* the first live animation, else of the first animation of the original
\* record, else the playhead
SpecProgress(W) ==
    IF W.sc.animations # <<>> THEN W.heap[W.sc.animations[1]].elapsed
    ELSE IF W.sc.original_animations # <<>>
         THEN W.heap[W.sc.original_animations[1]].elapsed
         ELSE W.tl.current_time

\* C7: step backward seeks the elapsed time of the first live animation, or of
\* the first animation of the original record when none is live, or the
\* playhead when the Scene has no animation at all, minus one quantum, floored
\* at 0.
C7_TargetFromFirstAnimation ==
    TargetProgress(World) = Max2(0, SpecProgress(World) - StepSize)

\* every animation has finished and left the live list: the target is taken
\* from the playhead, not from the first animation of the original record
C7_Witness ==
    /\ scene.animations = <<>>
    /\ scene.original_animations # <<>>
    /\ heap[scene.original_animations[1]].finished
    /\ heap[scene.original_animations[1]].elapsed > timeline.current_time + StepSize
    /\ TargetProgress(World) = Max2(0, timeline.current_time - StepSize)
    /\ TargetProgress(World) < SpecProgress(World) - StepSize

------------------------------------------------------------------------------
\* k step-forward commands, k step-backward commands
RECURSIVE StepsForward(_, _)
StepsForward(W, k) ==
    IF k = 0 THEN W ELSE StepsForward(SceneStepForward(W), k - 1)

RECURSIVE StepsBackward(_, _)
StepsBackward(W, k) ==
    IF k = 0 THEN W ELSE StepsBackward(SceneStepBackward(W), k - 1)

RoundTrip(W, k) == StepsBackward(StepsForward(W, k), k)

Dist(x, y) == IF x >= y THEN x - y ELSE y - x

\* C8: from any reachable Scene state with aggregate progress p, for every
\* k >= 1, k steps forward then k steps backward leave the aggregate progress
\* within one quantum of p.
C8_RoundTripWithinOneQuantum ==
    \A k \in 1..MaxK :
        Dist(SpecProgress(RoundTrip(World, k)), SpecProgress(World)) <= StepSize

\* the only animation has finished and left the live list: one step forward
\* and one step backward rewind it from its end to 0
C8_Witness ==
    /\ scene.animations = <<>>
    /\ Len(scene.original_animations) = 1
    /\ heap[scene.original_animations[1]].finished
    /\ SpecProgress(World) > StepSize
    /\ SpecProgress(StepsForward(World, 1)) = SpecProgress(World)
    /\ SpecProgress(RoundTrip(World, 1)) = 0

------------------------------------------------------------------------------
\* C9: step forward sets the Scene to paused and advances playback by exactly
\* one quantum: the playhead and the elapsed time of every unfinished live
\* animation each grow by StepSize (animations clamped at their duration).
C9_StepForwardAdvancesOneQuantum ==
    LET W2 == SceneStepForward(World)
    IN  /\ W2.sc.paused
        /\ W2.tl.current_time = timeline.current_time + StepSize
        /\ \A a \in Live :
              ~heap[a].finished =>
                  W2.heap[a].elapsed = Min2(heap[a].duration, heap[a].elapsed + StepSize)

\* C9 as amended: step forward sets the Scene to paused; the playhead grows
\* by one quantum exactly when the Timeline is playing and not finished, and
\* is unchanged otherwise; every unfinished live animation's elapsed time grows
\* by at least one quantum, clamped at its duration, and by exactly one quantum
\* when the animation occurs once in the live list and the Timeline does not
\* advance it as well.
C9_StepForwardPausesAndSteps ==
    LET W2 == SceneStepForward(World)
    IN  /\ W2.sc.paused
        /\ W2.tl.current_time =
              IF Running(timeline) THEN timeline.current_time + StepSize
              ELSE timeline.current_time
        /\ \A a \in Live :
              ~heap[a].finished =>
                  /\ W2.heap[a].elapsed
                        >= Min2(heap[a].duration, heap[a].elapsed + StepSize)
                  /\ W2.heap[a].elapsed <= heap[a].duration
                  /\ (/\ Count(scene.animations, a) = 1
                      /\ ~(/\ Running(timeline)
                           /\ EligibleEntries(timeline, a,
                                 timeline.current_time + StepSize) # {}))
                     => W2.heap[a].elapsed
                           = Min2(heap[a].duration, heap[a].elapsed + StepSize)

\* an unpaused Scene with a running Timeline and an unfinished live animation
\* that one step forward advances by a quantum without finishing it
C9_Witness ==
    /\ ~scene.paused
    /\ Running(timeline)
    /\ \E a \in Live :
          /\ heap[a].elapsed > 0
          /\ heap[a].elapsed + StepSize < heap[a].duration
          /\ SceneStepForward(World).heap[a].elapsed = heap[a].elapsed + StepSize
    /\ SceneStepForward(World).tl.current_time = timeline.current_time + StepSize

------------------------------------------------------------------------------
\* C10: in one frame tick or step with delta dt no animation's elapsed time
\* grows by more than dt, however the animation is registered.
C10_OneAdvancePerTick ==
    \A dt \in Dts :
        \A a \in 1..Len(heap) :
            /\ SceneUpdate(World, dt).heap[a].elapsed <= heap[a].elapsed + dt
            /\ SceneStep(World, dt).heap[a].elapsed <= heap[a].elapsed + dt

\* an animation that is live and also eligible on the running Timeline of the
\* Scene: a tick of 1 advances it by 2
C10_Witness ==
    /\ ~scene.paused
    /\ Running(timeline)
    /\ \E a \in Live :
          /\ Count(scene.animations, a) = 1
          /\ EligibleEntries(timeline, a, timeline.current_time + 1) # {}
          /\ heap[a].elapsed + 2 <= heap[a].duration
          /\ SceneUpdate(World, 1).heap[a].elapsed = heap[a].elapsed + 2

------------------------------------------------------------------------------
\* C18: Timeline.stop(), from any reachable state, sets the playhead to 0,
\* playing to false and finished to false, resets every scheduled animation to
\* Idle, and leaves the schedule (the buckets, their start times and
\* animations) and every duration unchanged.
C18_StopResetsAndKeepsSchedule ==
    LET s == TimelineStop(heap, timeline)
    IN  /\ s.tl.current_time = 0
        /\ ~s.tl.is_playing
        /\ ~s.tl.is_finished
        /\ \A a \in Range(Roster(timeline)) : Idle(s.heap[a])
        /\ s.tl.animations = timeline.animations
        /\ Len(s.heap) = Len(heap)
        /\ \A a \in 1..Len(heap) :
              /\ s.heap[a].duration = heap[a].duration
              /\ a \notin Range(Roster(timeline)) => s.heap[a] = heap[a]

\* a finished Timeline whose playhead has moved, holding a finished animation
\* and, in a second bucket, another animation: stop() has all of it to reset
C18_Witness ==
    /\ timeline.is_finished
    /\ timeline.current_time > 0
    /\ Len(timeline.animations) = 2
    /\ \E a \in Range(Roster(timeline)) :
          heap[a].finished /\ heap[a].elapsed > 0
    /\ \A a \in Range(Roster(timeline)) :
          Idle(TimelineStop(heap, timeline).heap[a])

------------------------------------------------------------------------------
\* C19: a pause() step changes only the playing flag (to false); a play() step
\* changes only the playing flag (to true) and the finished flag (to false);
\* neither changes the playhead, the schedule or any Animation object, and
\* pause() followed by play() on a running Timeline restores the very state.
C19_PlayPauseFrame ==
    [][/\ Pause => /\ heap' = heap
                   /\ scene' = scene
                   /\ timeline' = [timeline EXCEPT !.is_playing = FALSE]
       /\ Play => /\ heap' = heap
                  /\ scene' = scene
                  /\ timeline' = [timeline EXCEPT !.is_playing = TRUE,
                                                  !.is_finished = FALSE]
       /\ TimelinePlay(TimelinePause(timeline)).current_time
             = timeline.current_time
       /\ Running(timeline) => TimelinePlay(TimelinePause(timeline)) = timeline
      ]_vars

\* a paused Timeline part-way through an animation, and the same kind of
\* Timeline running: the states pause() leaves and play() resumes from
C19_Witness ==
    /\ ~timeline.is_playing
    /\ ~timeline.is_finished
    /\ timeline.current_time > 0
    /\ \E a \in Range(Roster(timeline)) :
          heap[a].elapsed > 0 /\ ~heap[a].finished
    /\ TimelinePlay(timeline).current_time = timeline.current_time
    /\ Running(TimelinePlay(timeline))

------------------------------------------------------------------------------
\* C20: update(dt) on a Timeline that is not playing, or is finished, changes
\* nothing: the playhead, both flags, the schedule and every Animation object
\* are as before, for every dt.
C20_UpdateNoOpUnlessRunning ==
    \A dt \in Dts :
        ~Running(timeline) =>
            TimelineUpdate(heap, timeline, dt) = [heap |-> heap, tl |-> timeline]

\* a paused, unfinished Timeline with an eligible unfinished animation, which
\* an update would advance if the Timeline were playing
C20_Witness ==
    /\ ~timeline.is_playing
    /\ ~timeline.is_finished
    /\ \E i \in 1..Len(Entries(timeline.animations)) :
          /\ Entries(timeline.animations)[i].time <= timeline.current_time
          /\ ~heap[Entries(timeline.animations)[i].anim].finished
          /\ heap[Entries(timeline.animations)[i].anim].duration > 0
    /\ TimelineUpdate(heap, timeline, 1) = [heap |-> heap, tl |-> timeline]

------------------------------------------------------------------------------
One == [num |-> 1, den |-> 1]

\* C13: for every duration d > 0, an Animation in its fresh state (elapsed 0,
\* not finished) has after update(d) progress 1.0 and is finished, and every
\* further update(dt) leaves elapsed, progress and the finished flag as they
\* are; so does update(dt) on any finished Animation.
C13_UpdateByDurationFinishes ==
    \A a \in 1..Len(heap) :
        /\ (Idle(heap[a]) /\ heap[a].duration > 0) =>
              LET a1 == AnimationUpdate(heap[a], heap[a].duration)
              IN  /\ AnimationProgress(a1) = One
                  /\ a1.finished
                  /\ a1.elapsed = a1.duration
                  /\ \A dt \in Dts :
                        /\ AnimationUpdate(a1, dt) = a1
                        /\ AnimationProgress(AnimationUpdate(a1, dt)) = One
        /\ heap[a].finished =>
              \A dt \in Dts : AnimationUpdate(heap[a], dt) = heap[a]

\* a fresh Animation of positive duration beside one that update has finished
C13_Witness ==
    \E a, b \in 1..Len(heap) :
        /\ Idle(heap[a]) /\ heap[a].duration = MaxDur
        /\ AnimationUpdate(heap[a], heap[a].duration).finished
        /\ heap[b].finished /\ heap[b].duration > 0
        /\ heap[b].elapsed = heap[b].duration

------------------------------------------------------------------------------
\* C14 as claimed: in every reachable Animation state, for every duration >= 0,
\* is_finished is true if and only if elapsed = duration.
C14_Original ==
    \A a \in 1..Len(heap) :
        heap[a].finished <=> (heap[a].elapsed = heap[a].duration)

\* C14 as amended: a finished Animation has elapsed = duration, for every
\* duration >= 0; for duration > 0 the converse holds too (finished if and only
\* if elapsed = duration).  An Animation of duration 0 is not finished when
\* constructed or reset, although elapsed = duration = 0, and its first
\* update(dt), for any dt >= 0, finishes it.
C14_FinishedIffReachedEnd ==
    \A a \in 1..Len(heap) :
        /\ heap[a].finished => heap[a].elapsed = heap[a].duration
        /\ heap[a].duration > 0 =>
              (heap[a].finished <=> heap[a].elapsed = heap[a].duration)
        /\ ~AnimationReset(heap[a]).finished
        /\ AnimationReset(heap[a]).elapsed = 0
        /\ heap[a].duration = 0 =>
              \A dt \in Dts : AnimationUpdate(heap[a], dt).finished

\* an Animation of duration 0 that is not finished, beside a finished one of
\* positive duration
C14_Witness ==
    \E a, b \in 1..Len(heap) :
        /\ heap[a].duration = 0 /\ ~heap[a].finished
        /\ heap[b].duration > 0 /\ heap[b].finished
        /\ heap[b].elapsed = heap[b].duration

------------------------------------------------------------------------------
\* C15: in every reachable Animation state 0 <= elapsed <= duration and
\* 0 <= progress <= 1, where progress = elapsed / duration for duration > 0 and
\* progress = 1 in every state when duration is 0.
C15_ElapsedAndProgressBounded ==
    \A a \in 1..Len(heap) :
        LET p == AnimationProgress(heap[a])
        IN  /\ 0 <= heap[a].elapsed
            /\ heap[a].elapsed <= heap[a].duration
            /\ p.den > 0
            /\ 0 <= p.num
            /\ p.num <= p.den
            /\ heap[a].duration > 0 =>
                  p.num * heap[a].duration = heap[a].elapsed * p.den
            /\ heap[a].duration = 0 => p = One

\* an Animation part-way (0 < progress < 1) beside one of duration 0, whose
\* progress is 1 in its fresh state
C15_Witness ==
    \E a, b \in 1..Len(heap) :
        /\ heap[a].elapsed > 0
        /\ heap[a].elapsed < heap[a].duration
        /\ AnimationProgress(heap[a]).num < AnimationProgress(heap[a]).den
        /\ heap[b].duration = 0
        /\ Idle(heap[b])
        /\ AnimationProgress(heap[b]) = One

------------------------------------------------------------------------------
\* the list get_active_animations() returns: the animations, in schedule order
ActiveList(H, tl) ==
    [i \in 1..Len(ActiveAnimations(H, tl)) |-> ActiveAnimations(H, tl)[i].anim]

\* what a caller observes of a Timeline: the active list, the playhead, the
\* flags, and the fields of the scheduled animations
Observation(H, tl) ==
    [active |-> ActiveList(H, tl),
     playhead |-> tl.current_time,
     finished |-> tl.is_finished,
     playing |-> tl.is_playing,
     fields |-> [i \in 1..Len(Roster(tl)) |-> H[Roster(tl)[i]]]]

\* the observations after each update of the call sequence S
RECURSIVE RunTrace(_, _, _)
RunTrace(H, tl, S) ==
    IF S = <<>> THEN <<>>
    ELSE LET r == TimelineUpdate(H, tl, Head(S))
         IN  <<Observation(r.heap, r.tl)>> \o RunTrace(r.heap, r.tl, Tail(S))

\* the update(dt) call sequences of length 1..MaxK
CallSequences == UNION {[1..n -> Dts] : n \in 1..MaxK}

\* a freshly built Timeline with the schedule of tl: new Animation objects of
\* the same durations at the same places, and a new Timeline
FreshHeap(H, tl) ==
    [a \in 1..Len(H) |->
        IF a \in Range(Roster(tl)) THEN NewAnimation(H[a].duration) ELSE H[a]]

FreshTimeline(tl) == [NewTimeline EXCEPT !.animations = tl.animations]

\* C16: for every schedule and every update(dt) call sequence S, a Timeline
\* that has run, after stop() then play(), yields under S at every step the
\* same active list, playhead, flags and animation fields as a freshly built
\* Timeline with the same schedule that is played and given S.
C16_StopPlayRunsAsFresh ==
    LET s == TimelineStop(heap, timeline)
    IN  /\ Observation(s.heap, TimelinePlay(s.tl))
              = Observation(FreshHeap(heap, timeline),
                            TimelinePlay(FreshTimeline(timeline)))
        /\ \A S \in CallSequences :
              RunTrace(s.heap, TimelinePlay(s.tl), S)
                  = RunTrace(FreshHeap(heap, timeline),
                             TimelinePlay(FreshTimeline(timeline)), S)

\* a Timeline that has run past its first animation and into its second; after
\* stop() and play() the calls update(1), update(1) show an active animation
C16_Witness ==
    /\ timeline.current_time > 0
    /\ Len(Roster(timeline)) = 2
    /\ \E a \in Range(Roster(timeline)) : heap[a].finished
    /\ \E a \in Range(Roster(timeline)) : heap[a].elapsed > 0 /\ ~heap[a].finished
    /\ LET s == TimelineStop(heap, timeline)
           t == RunTrace(s.heap, TimelinePlay(s.tl), <<1, 1>>)
       IN  /\ t[1].active # <<>>
           /\ t[2].playhead = 2
           /\ t # RunTrace(heap, TimelinePlay(timeline), <<1, 1>>)

------------------------------------------------------------------------------
\* the Scene after the frame ticks of the dt sequence S
RECURSIVE RunTicks(_, _)
RunTicks(W, S) ==
    IF S = <<>> THEN W ELSE RunTicks(SceneUpdate(W, Head(S)), Tail(S))

\* every animation of the original record has run to its end
Completed(W) ==
    \A i \in 1..Len(W.sc.original_animations) :
        W.heap[W.sc.original_animations[i]].finished

\* the final values of the animations of the original record: their fields
\* and the progress their interpolated value is computed from
FinalValues(W) ==
    [i \in 1..Len(W.sc.original_animations) |->
        [fields |-> W.heap[W.sc.original_animations[i]],
         progress |-> AnimationProgress(W.heap[W.sc.original_animations[i]])]]

\* the dt sequences of a run: 1..MaxRun frame ticks that each advance time
TickSequences == UNION {[1..n -> Dts \ {0}] : n \in 1..MaxRun}

\* C17: from any reachable Scene state, finished or not, a second replay
\* straight after the first changes nothing, and when replay followed by the
\* frame ticks of a dt sequence S has run the animations to completion, another
\* replay followed by the same S yields the same final animation values.
C17_ReplayIdempotent ==
    LET R == SceneReplay(World)
    IN  /\ SceneReplay(R) = R
        /\ \A S \in TickSequences :
              Completed(RunTicks(R, S)) =>
                  FinalValues(RunTicks(SceneReplay(RunTicks(R, S)), S))
                      = FinalValues(RunTicks(R, S))

\* a Scene that holds one animation of duration 3 twice: replay then one tick
\* of 2 completes it, the same again leaves it at elapsed 2
C17_Witness ==
    /\ scene.original_animations = <<1, 1>>
    /\ heap[1].duration = 3
    /\ SceneReplay(World).sc.animations = <<1, 1>>
    /\ LET R1 == RunTicks(SceneReplay(World), <<2>>)
       IN  /\ Completed(R1)
           /\ R1.sc.animations = <<1>>
           /\ SceneReplay(R1).sc.animations = <<1>>
           /\ RunTicks(SceneReplay(R1), <<2>>).heap[1]
                 = [duration |-> 3, elapsed |-> 2, finished |-> FALSE]

------------------------------------------------------------------------------
\* C11: admitting a Vector that holds a pending animation places that animation
\* in the live list and in the original record; admitting again the same
\* Vector object, with the same pending animation, changes neither the object
\* list nor the live list nor the original record.
C11_AdmissionOnceOnly ==
    \A v \in 1..Len(vectors) :
        vectors[v].pending # 0 =>
            LET W2 == SceneAdmit(World, vectors, v)
            IN  /\ vectors[v].pending \in Range(W2.sc.animations)
                /\ vectors[v].pending \in Range(W2.sc.original_animations)
                /\ (/\ v \in Range(scene.objects)
                    /\ vectors[v].pending \in Original)
                   => /\ W2.sc.objects = scene.objects
                      /\ W2.sc.animations = scene.animations
                      /\ W2.sc.original_animations = scene.original_animations

\* a Vector already admitted with its pending animation, once: admitting it
\* again leaves the object list alone and appends the animation a second time
C11_Witness ==
    \E v \in 1..Len(vectors) :
        /\ scene.objects = <<v>>
        /\ vectors[v].pending # 0
        /\ scene.animations = <<vectors[v].pending>>
        /\ scene.original_animations = <<vectors[v].pending>>
        /\ SceneAdmit(World, vectors, v).sc.objects = <<v>>
        /\ SceneAdmit(World, vectors, v).sc.animations
              = <<vectors[v].pending, vectors[v].pending>>
        /\ SceneAdmit(World, vectors, v).sc.original_animations
              = <<vectors[v].pending, vectors[v].pending>>

------------------------------------------------------------------------------
\* the unfinished live animations whose end is the very object v
UnfinishedOn(v) ==
    {a \in Live : a \in DOMAIN ends /\ ends[a] = v /\ ~heap[a].finished}

\* C12: for each scene object the rendering query yields the interpolated
\* value of a live animation if and only if some live animation ends at that
\* very object and is not finished, and then of such an animation; otherwise
\* it yields the object itself.
C12_RenderQueryByIdentity ==
    \A i \in 1..Len(scene.objects) :
        LET v == scene.objects[i]
            q == RenderQuery(World, ends, v)
        IN  /\ q.animated <=> UnfinishedOn(v) # {}
            /\ q.animated => q.of \in UnfinishedOn(v)
            /\ ~q.animated => q.of = v

\* two live animations end at one scene object; stepping has finished the
\* first and left it in the live list, the second is part-way: the query
\* yields the object itself
C12_Witness ==
    \E v \in Range(scene.objects) :
        /\ Len(Targeting(World, ends, v)) = 2
        /\ Targeting(World, ends, v)[1] # Targeting(World, ends, v)[2]
        /\ heap[Targeting(World, ends, v)[1]].finished
        /\ heap[Targeting(World, ends, v)[2]].elapsed > 0
        /\ ~heap[Targeting(World, ends, v)[2]].finished
        /\ RenderQuery(World, ends, v) = [animated |-> FALSE, of |-> v]

------------------------------------------------------------------------------
\* C21: a Timeline with nothing scheduled has duration 0, and after play() its
\* first update(dt), for every dt >= 0 (dt = 0 too), leaves it finished and not
\* playing, with no Animation object touched; no later update changes the
\* playhead or anything else.
C21_EmptyTimelineFinishesAtOnce ==
    timeline.animations = <<>> =>
        /\ TimelineDuration(heap, timeline) = 0
        /\ \A dt \in Dts :
              LET r == TimelineUpdate(heap, TimelinePlay(timeline), dt)
              IN  /\ r.tl.is_finished
                  /\ ~r.tl.is_playing
                  /\ r.heap = heap
                  /\ \A dt2 \in Dts :
                        /\ TimelineUpdate(r.heap, r.tl, dt2) = r
                        /\ TimelineUpdate(r.heap, r.tl, dt2).tl.current_time
                              = r.tl.current_time

\* an empty Timeline that play() and update(0) have left finished at playhead 0
C21_Witness ==
    /\ timeline.animations = <<>>
    /\ timeline.is_finished
    /\ ~timeline.is_playing
    /\ timeline.current_time = 0
    /\ 0 \in Dts
    /\ TimelineUpdate(heap, TimelinePlay(NewTimeline), 0).tl = timeline
------------------------------------------------------------------------------
\* the animations scheduled at start time t, in the order they were scheduled
BucketOf(tl, t) ==
    LET es == SelectSeq(Entries(tl.animations), LAMBDA e : e.time = t)
    IN  [i \in 1..Len(es) |-> es[i].anim]

\* the end times start time + duration of the scheduled entries
EndTimes(H, tl) ==
    {Entries(tl.animations)[i].time + H[Entries(tl.animations)[i].anim].duration :
        i \in 1..Len(Entries(tl.animations))}

\* C22: Timeline.duration is the maximum over all scheduled entries of start
\* time + duration, and 0 when nothing is scheduled; there is one bucket per
\* start time, and scheduling an animation at time t appends it to the bucket
\* of t, after the animations already there, leaving every other bucket, the
\* playhead and the flags as they are.
C22_DurationIsMaxEndAndScheduleAppends ==
    /\ IF Entries(timeline.animations) = <<>>
       THEN TimelineDuration(heap, timeline) = 0
       ELSE /\ TimelineDuration(heap, timeline) \in EndTimes(heap, timeline)
            /\ \A e \in EndTimes(heap, timeline) :
                  e <= TimelineDuration(heap, timeline)
    /\ \A i, j \in 1..Len(timeline.animations) :
          timeline.animations[i].time = timeline.animations[j].time => i = j
    /\ \A i \in 1..Len(timeline.animations) : timeline.animations[i].anims # <<>>
    /\ \A t \in StartTimes, a \in 1..Len(heap) :
          LET tl2 == TimelineAddAt(timeline, t, a)
          IN  /\ BucketOf(tl2, t) = Append(BucketOf(timeline, t), a)
              /\ \A u \in StartTimes \ {t} : BucketOf(tl2, u) = BucketOf(timeline, u)
              /\ Len(Entries(tl2.animations)) = Len(Entries(timeline.animations)) + 1
              /\ tl2.current_time = timeline.current_time
              /\ tl2.is_playing = timeline.is_playing
              /\ tl2.is_finished = timeline.is_finished

\* a bucket at a start time > 0 that holds two animations, the one scheduled
\* first being the longer: it decides the duration
C22_Witness ==
    /\ Len(timeline.animations) = 1
    /\ timeline.animations[1].time > 0
    /\ Len(timeline.animations[1].anims) = 2
    /\ heap[timeline.animations[1].anims[1]].duration
          > heap[timeline.animations[1].anims[2]].duration
    /\ TimelineDuration(heap, timeline)
          = timeline.animations[1].time
            + heap[timeline.animations[1].anims[1]].duration
    /\ BucketOf(timeline, timeline.animations[1].time)
          = timeline.animations[1].anims
------------------------------------------------------------------------------
\* the list `finished` that a frame tick collects and then removes
FinishedInTick(W, dt) ==
    UpdateLoop(TimelineUpdate(W.heap, W.tl, dt).heap, W.sc.animations, dt,
               <<>>).finished

\* list.remove(x) raises ValueError when x is not in the list: every removal
\* of the loop finds its element
RECURSIVE RemovalsDefined(_, _)
RemovalsDefined(s, xs) ==
    \/ xs = <<>>
    \/ /\ Contains(s, Head(xs))
       /\ RemovalsDefined(RemoveFirst(s, Head(xs)), Tail(xs))

\* max() of an empty sequence raises ValueError: Timeline.duration is defined
DurationDefined(tl) ==
    \A i \in 1..Len(tl.animations) : tl.animations[i].anims # <<>>

\* C23: after any sequence of tick, toggle-pause, replay, step-forward and
\* step-backward commands no command fails (every list removal and every
\* maximum it takes is defined), the playhead and every elapsed time are never
\* negative, no elapsed time exceeds its duration, and a step backward taken
\* at aggregate progress below one quantum lands on 0: the playhead, the
\* aggregate progress and the elapsed time of every animation are 0.
C23_TransportNeverFailsAndClamps ==
    /\ \A dt \in Dts : RemovalsDefined(scene.animations, FinishedInTick(World, dt))
    /\ DurationDefined(timeline)
    /\ timeline.current_time >= 0
    /\ \A a \in 1..Len(heap) :
          heap[a].elapsed >= 0 /\ heap[a].elapsed <= heap[a].duration
    /\ TargetProgress(World) >= 0
    /\ SpecProgress(World) < StepSize =>
          LET W2 == SceneStepBackward(World)
          IN  /\ W2.tl.current_time = 0
              /\ SpecProgress(W2) = 0
              /\ \A a \in Original \cup Live : W2.heap[a].elapsed = 0

\* every animation has finished and left the live list, the first of the
\* original record having duration 0, and the playhead stands beyond one
\* quantum: step backward fast-forwards the other animation away from 0
C23_Witness ==
    /\ scene.animations = <<>>
    /\ Len(scene.original_animations) = 2
    /\ heap[scene.original_animations[1]].duration = 0
    /\ heap[scene.original_animations[2]].duration > 0
    /\ SpecProgress(World) = 0
    /\ timeline.current_time > StepSize
    /\ SceneStepBackward(World).tl.current_time = 0
    /\ SceneStepBackward(World).heap[scene.original_animations[2]].elapsed > 0
------------------------------------------------------------------------------
\* s is an initial segment of t
IsPrefix(s, t) == Len(s) <= Len(t) /\ SubSeq(t, 1, Len(s)) = s

\* C24: in every reachable Scene state every live animation is in the original
\* record, and every step (add, remove, admission, tick, replay, step forward,
\* step backward, clear) leaves the original record as it was or appends to
\* it: no entry of it is ever removed or moved.
C24_LiveWithinAppendOnlyOriginal ==
    /\ [](Live \subseteq Original)
    /\ [][IsPrefix(scene.original_animations, scene'.original_animations)]_vars

\* a Scene whose first animation has finished and left the live list, after
\* which clear() emptied the list and a second admission refilled it: the
\* original record holds both, in the order of admission
C24_Witness ==
    /\ Len(scene.original_animations) = 2
    /\ scene.original_animations[1] # scene.original_animations[2]
    /\ heap[scene.original_animations[1]].finished
    /\ scene.animations = <<scene.original_animations[2]>>
    /\ scene.objects # <<>>
    /\ SceneClear(World).sc.original_animations = scene.original_animations
    /\ SceneReplay(World).sc.original_animations = scene.original_animations
------------------------------------------------------------------------------
InRange(lo, hi, x) == x.kind = "fin" /\ lo <= x.v /\ x.v <= hi

\* C30: after any sequence of camera commands (pan, zoom_by with any factor,
\* rotate, orbit, resize, reset) the zoom of the 2D camera is within
\* [ZoomMin, ZoomMax] = [5, 500], the elevation of the 3D camera is strictly
\* inside (-pi/2, pi/2), and its distance is within
\* [DistanceMin, DistanceMax] = [1, 100].
C30_CameraParametersInRange ==
    /\ camera.dim = 2 => InRange(ZoomMin, ZoomMax, camera.zoom)
    /\ camera.dim = 3 =>
          /\ camera.phi.kind = "fin"
          /\ -HalfPi < camera.phi.v
          /\ camera.phi.v < HalfPi
          /\ InRange(DistanceMin, DistanceMax, camera.distance)

\* a 2D camera zoomed in to its upper limit, which a NaN factor, a factor of
\* 100 and an infinite factor all leave there, and a 3D camera at its lowest
\* elevation and its smallest distance
C30_Witness ==
    \/ /\ camera.dim = 2
       /\ camera.zoom = Fin(ZoomMax)
       /\ camera.position = "away"
       /\ \A f \in Specials \cup {Frac(1000, 10)} :
             InRange(ZoomMin, ZoomMax,
                     Camera2DZoomBy(camera, f, FALSE, "away").zoom)
       /\ Camera2DZoomBy(camera, Frac(-10, 10), FALSE, "away").zoom = Fin(ZoomMin)
    \/ /\ camera.dim = 3
       /\ camera.phi = Fin(PhiMargin - HalfPi)
       /\ camera.distance = Fin(DistanceMin)
       /\ Camera3DZoomBy(camera, Frac(0, 10)).distance = Fin(DistanceMin)

------------------------------------------------------------------------------
\* C28: value semantics of Vector.  Whenever transform, scale, add, subtract
\* or project_onto returns, its result is a new Vector object, distinct from
\* the receiver and the argument; every Vector that existed keeps its
\* components and origin; and the result has a previous state whose
\* components and origin are the receiver's at the time of the call.

\* the results of the five operations with receiver v, over every argument
DerivedFrom(L, v) ==
    {VectorTransform(L, v, d) : d \in MatrixData}
        \cup {VectorScale(L, v, 2)}
        \cup {VectorAdd(L, v, w) : w \in Held(L)}
        \cup {VectorSubtract(L, v, w) : w \in Held(L)}
        \cup {VectorProjectOnto(L, v, w) : w \in Held(L)}

ValueOf(x) == [components |-> x.components, origin |-> x.origin]

IsNewObject(L, r) ==
    /\ r.result \in (Len(L.vecs) + 1)..Len(r.lib.vecs)
    /\ \A u \in 1..Len(L.vecs) : ValueOf(r.lib.vecs[u]) = ValueOf(L.vecs[u])

LinksBackTo(L, v, r) ==
    LET p == r.lib.vecs[r.result].previous_state
    IN  /\ p \in (Len(L.vecs) + 1)..Len(r.lib.vecs)
        /\ p # r.result
        /\ ValueOf(r.lib.vecs[p]) = ValueOf(L.vecs[v])

C28_ValueSemantics ==
    \A v \in Held(lib) : \A r \in DerivedFrom(lib, v) :
        ~r.raised => IsNewObject(lib, r) /\ LinksBackTo(lib, v, r)

\* a Vector is projected onto a zero Vector of its dimension
C28_Witness ==
    \E v, w \in Held(lib) :
        /\ lib.vecs[v].dim = lib.vecs[w].dim
        /\ ~AnyNonZero(lib.vecs[w].components)
        /\ AnyNonZero(lib.vecs[v].components)
        /\ LET r == VectorProjectOnto(lib, v, w)
           IN  ~r.raised /\ r.lib.vecs[r.result].previous_state = 0

------------------------------------------------------------------------------
\* C25: the snapshots of an animation are never mutated after capture.  Once
\* animate() has created a VectorAnimation, no operation of a caller on any
\* Vector changes the components or the origin of its start or of its end.

\* what get_value() of animation a reads: the values of its _start and _end
SnapshotOf(L, a) ==
    [start |-> ValueOf(L.vecs[L.anims[a].start]),
     end   |-> ValueOf(L.vecs[L.anims[a].end])]

C25_SnapshotsNeverMutated ==
    [][\A a \in 1..Len(lib.anims) : SnapshotOf(lib', a) = SnapshotOf(lib, a)]_vars

\* an animation exists whose end Vector the caller can still move with at()
C25_Witness ==
    \E a \in 1..Len(lib.anims) :
        /\ lib.anims[a].end \in Held(lib)
        /\ lib.vecs[lib.anims[a].end].pending = a
        /\ \E o \in Origins :
              SnapshotOf(VectorAt(lib, lib.anims[a].end, o).lib, a)
                  # SnapshotOf(lib, a)

------------------------------------------------------------------------------
\* C29: dimension errors fail fast.  A Vector of other than 2 or 3
\* components, a Matrix that is not square or not of size 2 or 3, a Scene of
\* dim other than 2 or 3, add, subtract, dot, project_onto or angle_with on
\* Vectors of different dimension and transform by a Matrix of another
\* dimension each raise, return no object and leave every object as it was;
\* and every Vector that exists has 2 or 3 components, as many as its
\* operands had.

\* the call raised, returned nothing and changed no object
FailsClean(L, r) ==
    /\ r.raised
    /\ r.result = 0
    /\ r.lib.vecs = L.vecs
    /\ r.lib.anims = L.anims

BadConstructionsFail(L) ==
    /\ \A c \in ComponentTuples, o \in {<<>>} \cup Origins :
          Len(c) \notin {2, 3} => FailsClean(L, VectorInit(L, c, o))
    /\ \A d \in MatrixData :
          (~IsSquare(d) \/ Len(d) \notin {2, 3})
              => /\ MatrixInit(d).raised
                 /\ MatrixInit(d).data = <<>>
    /\ \A d \in SceneDims :
          d \notin {2, 3} => SceneInit(d).raised /\ SceneInit(d).scene = <<>>

MismatchedCallsFail(L) ==
    /\ \A v, w \in Held(L) :
          L.vecs[v].dim # L.vecs[w].dim
              => /\ FailsClean(L, VectorAdd(L, v, w))
                 /\ FailsClean(L, VectorSubtract(L, v, w))
                 /\ FailsClean(L, VectorDot(L, v, w))
                 /\ FailsClean(L, VectorProjectOnto(L, v, w))
                 /\ FailsClean(L, VectorAngleWith(L, v, w))
    /\ \A v \in Held(L), d \in MatrixData :
          (MatrixInit(d).raised \/ MatrixInit(d).dim # L.vecs[v].dim)
              => FailsClean(L, VectorTransform(L, v, d))

NothingCoerced(L) ==
    /\ \A v \in 1..Len(L.vecs) :
          /\ L.vecs[v].dim \in {2, 3}
          /\ Len(L.vecs[v].components) = L.vecs[v].dim
    /\ \A v \in Held(L) : \A r \in DerivedFrom(L, v) :
          ~r.raised => r.lib.vecs[r.result].dim = L.vecs[v].dim

C29_DimensionErrorsFailFast ==
    /\ BadConstructionsFail(lib)
    /\ MismatchedCallsFail(lib)
    /\ NothingCoerced(lib)

\* a 2-component and a 3-component Vector exist and the last call raised
C29_Witness ==
    /\ lib.raised
    /\ \E v, w \in Held(lib) : lib.vecs[v].dim = 2 /\ lib.vecs[w].dim = 3
    /\ \E v \in Held(lib) : lib.vecs[v].previous_state # 0

------------------------------------------------------------------------------
\* C26 as stated: VectorAnimation(v1, v2, d).get_value() equals v1's
\* (components, origin) at elapsed 0 and v2's at elapsed d, and is
\* start + f(progress) * (end - start) of the current elapsed time.

\* start + t * (end - start) in floating point, element by element, written
\* out for the fields of the two Vectors
Interpolated(s, e, t) ==
    [components |->
        [i \in 1..Len(s.components) |->
            FAdd(s.components[i],
                 FMul(t, FSub(e.components[i], s.components[i])))],
     origin |->
        [i \in 1..Len(s.origin) |->
            FAdd(s.origin[i], FMul(t, FSub(e.origin[i], s.origin[i])))]]

\* the progress of the current elapsed time, eased
CurrentT(an, f) ==
    ApplyEasing(f, IF FDiv(an.elapsed, an.duration) < FOne
                   THEN FDiv(an.elapsed, an.duration) ELSE FOne)

FollowsFormula(L, an) ==
    VectorAnimationGetValue(L, 1, an)
        = Interpolated(L.vecs[1], L.vecs[2], CurrentT(an, L.anims[1].easing))

C26_GetValueEqualsEndpoints ==
    IsVectorAnimation(lib) =>
        /\ heap[1].elapsed = 0
              => VectorAnimationGetValue(lib, 1, heap[1]) = ValueOf(lib.vecs[1])
        /\ heap[1].elapsed = heap[1].duration
              => VectorAnimationGetValue(lib, 1, heap[1]) = ValueOf(lib.vecs[2])
        /\ FollowsFormula(lib, heap[1])

\* C26, amended: get_value() equals v1's (components, origin) at elapsed 0
\* and is start + f(progress) * (end - start) of the current elapsed time,
\* each operation rounded; at elapsed d it is start + (end - start), which
\* is v2's value in each element whose difference end - start is
\* representable and is otherwise within one unit in the last place of the
\* larger of the two magnitudes.

\* the spacing of the floats at the magnitude of x
Ulp(x) == 2 ^ ExponentOf(Abs(x), 1, 0)

\* element x of the final value against start element s and end element e
EndsWithinRounding(x, s, e) ==
    /\ x = FAdd(s, FSub(e, s))
    /\ Representable(e - s) => x = e
    /\ Abs(x - e) <= Ulp(IF Abs(s) > Abs(e) THEN s ELSE e)

C26_GetValueWithinRounding ==
    IsVectorAnimation(lib) =>
        LET x == VectorAnimationGetValue(lib, 1, heap[1])
            s == lib.vecs[1]
            e == lib.vecs[2]
        IN  /\ heap[1].elapsed = 0 => x = ValueOf(s)
            /\ heap[1].elapsed = heap[1].duration
                  => /\ \A i \in 1..Len(x.components) :
                           EndsWithinRounding(x.components[i],
                               s.components[i], e.components[i])
                     /\ \A i \in 1..Len(x.origin) :
                           EndsWithinRounding(x.origin[i],
                               s.origin[i], e.origin[i])
            /\ FollowsFormula(lib, heap[1])

\* a finished animation between Vectors whose difference is not
\* representable, so that its final value is not the end Vector's, after a
\* reset and a second run
C26_Witness ==
    /\ IsVectorAnimation(lib)
    /\ heap[1].finished
    /\ heap[1].elapsed = heap[1].duration
    /\ \E i \in 1..2 :
          ~Representable(lib.vecs[2].components[i] - lib.vecs[1].components[i])
    /\ VectorAnimationGetValue(lib, 1, heap[1]) # ValueOf(lib.vecs[2])
    /\ VectorAnimationGetValue(lib, 1, AnimationReset(heap[1]))
          = ValueOf(lib.vecs[1])

------------------------------------------------------------------------------
\* C27 as stated: GridTransformAnimation.get_value() is
\* identity + eased_progress * (target - identity) entry by entry: the
\* identity at eased progress 0, the target at eased progress 1, and
\* [[1.5, 0], [0, 1.5]] for the target [[2, 0], [0, 2]] at eased progress 0.5.

\* the eased progress of the one animation
GridT == EasedProgress(heap[1], lib.anims[1].easing)

TwiceIdentity == <<<<2 * FOne, 0>>, <<0, 2 * FOne>>>>

GridFollowsFormula(data, t, x) ==
    \A i, j \in 1..Len(data) :
        x[i][j] = FAdd(Identity(Len(data))[i][j],
                       FMul(t, FSub(data[i][j], Identity(Len(data))[i][j])))

ScenarioHolds(data, t, x) ==
    (data = TwiceIdentity /\ 2 * t = FOne)
        => x = <<<<3 * (FOne \div 2), 0>>, <<0, 3 * (FOne \div 2)>>>>

C27_GridValueEqualsEndpoints ==
    IsGridAnimation(lib) =>
        LET data == lib.anims[1].matrix
            x == GridTransformAnimationGetValue(lib, 1, heap[1])
        IN  /\ GridFollowsFormula(data, GridT, x)
            /\ GridT = 0 => x = Identity(Len(data))
            /\ GridT = FOne => x = data
            /\ ScenarioHolds(data, GridT, x)

\* C27, amended: get_value() is identity + eased_progress * (target -
\* identity) entry by entry, each operation rounded: the identity at eased
\* progress 0 and [[1.5, 0], [0, 1.5]] for the target [[2, 0], [0, 2]] at
\* eased progress 0.5; at eased progress 1 an entry equals the target's if
\* its difference from the identity is representable and is otherwise within
\* one unit in the last place of the larger of the two magnitudes.
C27_GridValueWithinRounding ==
    IsGridAnimation(lib) =>
        LET data == lib.anims[1].matrix
            x == GridTransformAnimationGetValue(lib, 1, heap[1])
        IN  /\ GridFollowsFormula(data, GridT, x)
            /\ GridT = 0 => x = Identity(Len(data))
            /\ GridT = FOne
                  => \A i, j \in 1..Len(data) :
                        EndsWithinRounding(x[i][j],
                            Identity(Len(data))[i][j], data[i][j])
            /\ ScenarioHolds(data, GridT, x)

\* the scenario's animation stands at eased progress 0.5
C27_Witness ==
    /\ IsGridAnimation(lib)
    /\ lib.anims[1].matrix = TwiceIdentity
    /\ 2 * GridT = FOne
    /\ heap[1].elapsed > 0
    /\ GridTransformAnimationGetValue(lib, 1, heap[1])
          = <<<<3 * (FOne \div 2), 0>>, <<0, 3 * (FOne \div 2)>>>>

------------------------------------------------------------------------------
\* C31: camera and playback are independent.  No frame tick, replay, step
\* forward, step backward or toggle of the pause changes any field of the
\* camera, and no pan, zoom, orbit, camera reset or resize changes the
\* Timeline, an animation, the live or the original list or the paused flag.
C31_CameraAndPlaybackIndependent ==
    [][/\ PlaybackCommand => camera' = camera
       /\ CameraCommand => UNCHANGED <<heap, timeline, scene>>]_vars

\* playback has progressed and been paused while the camera is away from its
\* defaults in every field
C31_Witness ==
    /\ scene.paused
    /\ timeline.current_time > 0
    /\ \E a \in 1..Len(heap) : heap[a].elapsed > 0
    /\ camera.size # DefaultSize
    /\ \/ /\ camera.dim = 2
          /\ camera.zoom # Fin(ZoomDefault)
          /\ camera.position # "origin"
       \/ /\ camera.dim = 3
          /\ camera.distance # Fin(DistanceDefault)
          /\ camera.phi # Fin(PhiDefault)
          /\ camera.theta # ThetaDefault
          /\ camera.target # "origin"

------------------------------------------------------------------------------
\* C32: the 2D camera maps world to screen and back without loss.  In every
\* camera state, screen_to_world(world_to_screen(x, y)) = (x, y) for every
\* world point and world_to_screen(screen_to_world(s)) = s for every screen
\* point, in exact arithmetic.

Point(p) == <<Whole(p[1]), Whole(p[2])>>

\* screen points: the cursor positions and one between pixels
ScreenPoints == {Point(p) : p \in Cursors} \cup {<<Q(1, 2), Q(-7, 2)>>}

C32_WorldScreenRoundTrip ==
    /\ \A p \in WorldPoints :
          ScreenToWorld(camera, WorldToScreen(camera, p)) = p
    /\ \A s \in ScreenPoints :
          WorldToScreen(camera, ScreenToWorld(camera, s)) = s

\* a camera that is panned, zoomed, rotated and resized
C32_Witness ==
    /\ camera.position[1] # Whole(0)
    /\ camera.position[2] # Whole(0)
    /\ camera.zoom \notin {Whole(ZoomDefault), Whole(ZoomMin), Whole(ZoomMax)}
    /\ camera.rotation # NoTurn
    /\ camera.size # DefaultSize
    /\ \E p \in WorldPoints : WorldToScreen(camera, p) # WorldToScreen(NewView(DefaultSize), p)

\* C33: zooming toward the cursor keeps the world point under the cursor.
\* In every camera state, for every factor and cursor position c, the world
\* point screen_to_world(c) before zoom_by(factor, c) is at screen position
\* c after it, also when the zoom is clamped at 5 or 500.
C33_ZoomKeepsPointUnderCursor ==
    \A factor \in ViewFactors, c \in Cursors :
        LET w == ScreenToWorld(camera, Point(c))
            after == ViewZoomBy(camera, factor, c)
        IN  WorldToScreen(after, w) = Point(c)

\* a panned and rotated camera has been zoomed toward a cursor up to a limit
\* and would be clamped again
C33_Witness ==
    /\ camera.zoom \in {Whole(ZoomMin), Whole(ZoomMax)}
    /\ camera.position # <<Whole(0), Whole(0)>>
    /\ camera.rotation # NoTurn
    /\ \E factor \in ViewFactors, c \in Cursors :
          /\ factor.den # 0
          /\ QMul(camera.zoom, factor) \notin {Whole(ZoomMin), Whole(ZoomMax)}
          /\ ViewZoomBy(camera, factor, c).zoom = camera.zoom

------------------------------------------------------------------------------
\* Insertion order of the start times (timeline.py: _add_at, update).

\* the orders in which the start times of bs can have been inserted first
Reorderings(bs) ==
    {[i \in 1..Len(bs) |-> bs[p[i]]] :
        p \in {q \in [1..Len(bs) -> 1..Len(bs)] :
                  \A i, j \in 1..Len(bs) : q[i] = q[j] => i = j}}

\* what a caller sees of a Timeline, whatever the insertion order
Outcome(H, tl) ==
    [duration |-> TimelineDuration(H, tl),
     playhead |-> tl.current_time,
     finished |-> tl.is_finished,
     playing |-> tl.is_playing,
     fields |-> H,
     active |-> Range(ActiveAnimations(H, tl))]

RECURSIVE OutcomeTrace(_, _, _)
OutcomeTrace(H, tl, S) ==
    IF S = <<>> THEN <<>>
    ELSE LET r == TimelineUpdate(H, tl, Head(S))
         IN  <<Outcome(r.heap, r.tl)>> \o OutcomeTrace(r.heap, r.tl, Tail(S))

\* C34: insertion order across distinct start times is irrelevant. For every
\* Timeline and every other order in which its start times could have been
\* inserted, the total duration is the same and, under the same play() and
\* update(dt) sequence, so are at every step the playhead, every animation's
\* elapsed and finished values, the finished flag and the set of active
\* animations.
C34_InsertionOrderIrrelevant ==
    \A bs \in Reorderings(timeline.animations) :
        LET other == [timeline EXCEPT !.animations = bs]
        IN  /\ Outcome(heap, other) = Outcome(heap, timeline)
            /\ Outcome(heap, TimelinePlay(other))
                   = Outcome(heap, TimelinePlay(timeline))
            /\ \A S \in CallSequences :
                  /\ OutcomeTrace(heap, other, S)
                         = OutcomeTrace(heap, timeline, S)
                  /\ OutcomeTrace(heap, TimelinePlay(other), S)
                         = OutcomeTrace(heap, TimelinePlay(timeline), S)

\* a playing Timeline with two start times, the later one inserted first and
\* holding the animation that ends first; the next update(1) advances both
C34_Witness ==
    /\ Len(timeline.animations) = 2
    /\ timeline.animations[1].time > timeline.animations[2].time
    /\ timeline.is_playing
    /\ Len(ActiveAnimations(heap, timeline)) = 2
    /\ TimelineDuration(heap, timeline)
           # TimelineDurationOfLast(heap, timeline)
    /\ LET r == TimelineUpdate(heap, timeline, 1)
       IN  \A a \in Range(Roster(timeline)) : r.heap[a].elapsed > heap[a].elapsed

------------------------------------------------------------------------------
\* The endpoints and branch boundaries of the easing functions (easing.py).

\* the two neighbouring branches of a piecewise easing give the same value at
\* the boundary between them
BranchesMeet ==
    /\ InOutQuadFirst(Lit(1, 2)) = InOutQuadSecond(Lit(1, 2))
    /\ InOutCubicFirst(Lit(1, 2)) = InOutCubicSecond(Lit(1, 2))
    /\ BounceFirst(BounceBoundaries[1]) = BounceSecond(BounceBoundaries[1])
    /\ BounceSecond(BounceBoundaries[2]) = BounceThird(BounceBoundaries[2])
    /\ BounceThird(BounceBoundaries[3]) = BounceFourth(BounceBoundaries[3])

\* C35: every easing function anchors its endpoints exactly, f(0) = 0 and
\* f(1) = 1, so that an animation at progress 0 has eased progress 0 and a
\* finished one has eased progress 1; and the piecewise functions take the
\* same value from both branches at each branch boundary.
C35_EasingsAnchoredAndContinuous ==
    /\ \A f \in AllEasings : ApplyEasing(f, 0) = 0 /\ ApplyEasing(f, FOne) = FOne
    /\ FloatProgress(heap[1]) = 0
           => EasedProgress(heap[1], lib.anims[1].easing) = 0
    /\ FloatProgress(heap[1]) = FOne
           => EasedProgress(heap[1], lib.anims[1].easing) = FOne
    /\ BranchesMeet

\* an animation with ease_in_sine has run to its end: its progress is 1.0,
\* its eased progress is the float below 1.0 and its value is not its end
C35_Witness ==
    /\ lib.anims[1].easing = "ease_in_sine"
    /\ heap[1].finished
    /\ FloatProgress(heap[1]) = FOne
    /\ EasedProgress(heap[1], "ease_in_sine") < FOne
    /\ VectorAnimationGetValue(lib, 1, heap[1]).components
           # lib.vecs[2].components

------------------------------------------------------------------------------
\* Termination of playback (scene.py: _update, show, play).

PlaybackDone ==
    /\ \A a \in Range(scene.original_animations) : heap[a].finished
    /\ \A a \in Range(Roster(timeline)) : heap[a].finished
    /\ scene.animations = <<>>
    /\ timeline.is_finished
    /\ ~timeline.is_playing

\* C36: playback terminates. Once a Scene has been started with play(), is
\* not paused and its frames keep coming with dt > 0, eventually every
\* admitted animation is finished, the live list is empty, the Timeline is
\* finished and not playing, and it all stays so.
C36_PlaybackTerminates == PlaybackStarted ~> []PlaybackDone

\* playback has ended for a Scene with two animations of positive duration,
\* one admitted and one scheduled later than time 0
C36_Witness ==
    /\ PlaybackDone
    /\ Len(scene.original_animations) > 0
    /\ \E i \in 1..Len(timeline.animations) : timeline.animations[i].time > 0
    /\ Len(heap) = 2
    /\ \A a \in 1..Len(heap) : heap[a].duration > 1
    /\ Range(scene.original_animations) # Range(Roster(timeline))

------------------------------------------------------------------------------
\* Resuming after the transport commands (scene.py: _step_backward,
\* _handle_events; timeline.py: stop, update).

TimelineDone ==
    /\ timeline.is_finished
    /\ \A a \in Range(Roster(timeline)) : heap[a].finished

\* C37: resuming always resumes. From every Scene state reached after play()
\* by ticks, toggle-pause, step-forward, step-backward and replay, once the
\* Scene is un-paused and frames with dt > 0 continue with no further
\* command, eventually the Timeline is finished and every animation
\* scheduled on it is finished.
C37_ResumingResumes == <>TimelineDone

\* an un-paused Scene whose Timeline is not playing and not finished, with an
\* unfinished animation scheduled on it: a frame leaves the Timeline and that
\* animation as they are
C37_Witness ==
    /\ ~scene.paused
    /\ ~timeline.is_playing
    /\ ~timeline.is_finished
    /\ \E a \in Range(Roster(timeline)) :
          /\ ~heap[a].finished
          /\ a \notin Range(scene.animations)
          /\ SceneUpdate(World, 1).heap[a] = heap[a]
    /\ SceneUpdate(World, 1).tl = timeline

------------------------------------------------------------------------------
\* Admission of scene objects (scene.py: add, remove; vector.py: __eq__).

\* C38: Scene object admission is by object identity. Whatever the Scene
\* holds, after scene.add(v) the object v itself is in the object list, also
\* when a different Vector with equal components is there already; and
\* scene.remove(v) removes v itself if it is there and nothing else.
C38_AdmissionByIdentity ==
    \A v \in 1..Len(vectors) :
        /\ Contains(SceneAdd(World, vectors, v).sc.objects, v)
        /\ SceneRemove(World, vectors, v).sc.objects
               = IF Contains(scene.objects, v)
                 THEN RemoveFirst(scene.objects, v)
                 ELSE scene.objects

\* the Scene holds a Vector, and a different Vector object with equal
\* components and another pending animation is not in it: adding the second
\* changes nothing and removing the second removes the first
C38_Witness ==
    \E v \in 1..Len(vectors), w \in 1..Len(vectors) :
        /\ v # w
        /\ VectorEq(vectors[v], vectors[w])
        /\ vectors[v].pending # vectors[w].pending
        /\ scene.objects = <<v>>
        /\ SceneAdd(World, vectors, w).sc.objects = <<v>>
        /\ SceneRemove(World, vectors, w).sc.objects = <<>>

------------------------------------------------------------------------------
\* The flags of the Timeline (timeline.py: play, pause, stop, update).

\* C39: in every reachable Timeline state the playing and finished flags are
\* not both true, and update(dt) leaves a finished Timeline, its playhead
\* and its animations as they are, whatever dt.
C39_FinishedNotPlaying ==
    /\ ~(timeline.is_playing /\ timeline.is_finished)
    /\ timeline.is_finished =>
          \A dt \in Dts :
              TimelineUpdate(heap, timeline, dt) = [heap |-> heap, tl |-> timeline]

\* a Timeline that has run through its two animations to the end and is
\* finished; play() would start it again and stop() would rewind it
C39_Witness ==
    /\ timeline.is_finished
    /\ ~timeline.is_playing
    /\ timeline.current_time > 0
    /\ Len(Roster(timeline)) = 2
    /\ \A a \in Range(Roster(timeline)) : heap[a].finished /\ heap[a].elapsed > 0
    /\ TimelinePlay(timeline).is_playing
    /\ ~TimelinePlay(timeline).is_finished
    /\ TimelineStop(heap, timeline).tl.current_time = 0

------------------------------------------------------------------------------
\* The step counter of the MatrixScene player (matrix_scene.py).

\* C40: the step counter stays within 0..total_steps after any sequence of
\* timer advances and restart, step-right and step-left commands.
C40_StepCounterInRange ==
    /\ scene.animation_step >= 0
    /\ scene.animation_step <= scene.total_steps

\* the timer has brought the counter to total_steps and holds it there, and
\* the right key moves it past
C40_Witness ==
    /\ scene.animation_step = scene.total_steps
    /\ ~scene.paused
    /\ MatrixSceneLoop(scene, <<>>, StepDuration).animation_step
           = scene.total_steps
    /\ MatrixSceneLoop(scene, <<"right">>, 0).animation_step
           > scene.total_steps
==============================================================================
